---- MODULE Spec2Model ----
(***************************************************************************)
(* Model of webrender's prepare pass (webrender/src/prepare.rs): the       *)
(* traversal prepare_primitives / prepare_prim_for_render, clip-task       *)
(* synthesis (update_clip_task, update_clip_task_for_brush,                *)
(* update_brush_segment_clip_task), segment building                       *)
(* (build_segments_if_needed), the kind-specific preparation               *)
(* (prepare_interned_prim_for_render), the gradient stop-run walk          *)
(* (emit_segments), the tile decomposition (decompose_repeated_primitive)  *)
(* and the mask clamp (adjust_mask_scale_for_max_size).                    *)
(*                                                                         *)
(* Values that collaborators outside prepare.rs hand to the code (results  *)
(* of the spatial mappers, of the clip-chain builder, of the segment       *)
(* builder, the templates in the data stores) are inputs: they are drawn   *)
(* from small sets at the point where the code first reads them.           *)
(***************************************************************************)
EXTENDS Integers, Sequences, FiniteSets, TLC

\* ------------------------------------------------------------------ bounds

\* Number of primitive instances in the picture tree.
MaxPrims == 2
\* Longest segment list the segment builder or a template hands back.
MaxSegs == 2
\* Longest list of border segments of a normal border template.
MaxBorderSegs == 2

\* --------------------------------------------------------------- sentinels

\* PrimitiveVisibilityIndex::INVALID, SegmentInstanceIndex::INVALID and
\* ClipTaskIndex::INVALID: "no slot".
INVALID == -1
\* SegmentInstanceIndex::UNUSED: segment building was tried and declined.
UNUSED == -2

None == <<>>
Some(x) == <<x>>
IsSome(o) == Len(o) = 1
Unwrap(o) == o[1]

\* ------------------------------------------------------------------- scene

Kinds ==
    {"Rectangle", "Image", "YuvImage", "TextRun", "LineDecoration",
     "NormalBorder", "ImageBorder", "LinearGradient", "RadialGradient",
     "ConicGradient", "Picture", "Clear", "Backdrop"}

\* Kinds whose instance (or image instance) carries a segment_instance_index.
SegmentedKinds == {"Rectangle", "YuvImage", "Image", "Picture"}

Rect(x0, y0, x1, y1) == [x0 |-> x0, y0 |-> y0, x1 |-> x1, y1 |-> y1]

\* euclid Rect::intersects: strict overlap on both axes.
Intersects(a, b) ==
    /\ a.x0 < b.x1 /\ b.x0 < a.x1
    /\ a.y0 < b.y1 /\ b.y0 < a.y1

\* The dirty regions a frame may carry: an ordered list of world rects, each
\* tagged with a visibility mask (a set of bits).
DirtyRegions ==
    { << [world_rect |-> Rect(0, 0, 4, 4), visibility_mask |-> {1}] >>,
      << [world_rect |-> Rect(0, 0, 4, 4), visibility_mask |-> {1}],
         [world_rect |-> Rect(2, 0, 8, 4), visibility_mask |-> {2}] >> }

VARIABLES
    scene,                \* static: kind, parent list, backdrop picture
    dirty_region,         \* frame_state.current_dirty_region().dirty_rects
    inst,                 \* per instance: visibility_info, segment_instance_index
    prim_info,            \* scratch.prim_info, one slot per instance
    pics,                 \* store.pictures: context and segment validity
    surfaces,             \* frame_state.surfaces[..].render_tasks
    stack,                \* call stack of prepare_primitives
    graph_log,            \* render-task graph operations, in program order
    clip_mask_instances,  \* scratch.clip_mask_instances
    segments,             \* scratch.segments
    segment_instances,    \* scratch.segment_instances
    cache_entries,        \* render task cache: key -> entry
    requests,             \* request_render_task calls, in program order
    trace,                \* steps taken, in program order
    panicked,             \* a fatal invariant fired
    visible_primitives,   \* profile counter
    gradient_tiles,       \* scratch.gradient_tiles
    fn                    \* call record of the function-level specifications

vars ==
    << scene, dirty_region, inst, prim_info, pics, surfaces, stack, graph_log,
       clip_mask_instances, segments, segment_instances, cache_entries,
       requests, trace, panicked, visible_primitives, gradient_tiles, fn >>

\* ----------------------------------------------------------- scene shapes

\* parent[i] is the picture instance whose child list holds i (0: the list
\* handed to the stage). Lists are ordered by instance number.
AllParents(n) == { p \in [1..n -> 0..n] : \A i \in 1..n : p[i] < i }

RECURSIVE AncestorsOf(_, _)
AncestorsOf(par, i) ==
    IF par[i] = 0 THEN {} ELSE {par[i]} \cup AncestorsOf(par, par[i])

\* The picture a backdrop primitive samples is a picture of its own that does
\* not contain the backdrop primitive.
BackdropTargets(kind, par, i) ==
    { j \in 1..(i - 1) : kind[j] = "Picture" /\ j \notin AncestorsOf(par, i) }

SceneKinds(n, ks, p) ==
    { k \in [1..n -> ks] :
        \A i \in 1..n :
            /\ p[i] # 0 => k[p[i]] = "Picture"
            /\ k[i] = "Backdrop" => BackdropTargets(k, p, i) # {} }

SceneBackdrops(n, k, p) ==
    { b \in [1..n -> 0..n] :
        \A i \in 1..n :
            IF k[i] = "Backdrop" THEN b[i] \in BackdropTargets(k, p, i)
                                 ELSE b[i] = 0 }

PrimsOf == DOMAIN scene.kind
KindOf(i) == scene.kind[i]

RECURSIVE ChildrenFrom(_, _)
ChildrenFrom(p, i) ==
    IF i > Cardinality(PrimsOf) THEN <<>>
    ELSE (IF scene.parent[i] = p THEN <<i>> ELSE <<>>) \o ChildrenFrom(p, i + 1)

\* prim_list.prim_instances of picture p, clusters flattened in order.
Children(p) == ChildrenFrom(p, 1)

Descendants(p) == { d \in PrimsOf : p \in AncestorsOf(scene.parent, d) }

\* A tree of one instance draws every input from its full set; a larger tree
\* draws the inputs that do not bear on how instances interact from a
\* subset.
Rich == Cardinality(PrimsOf) = 1

\* ------------------------------------------------------ render-task graph

\* graph_log holds the calls made on frame_state.render_tasks, in order:
\* op "add" (render_tasks.add(): a new task, numbered in creation order) and
\* op "dep" (add_dependency(consumer, task)).
TaskCount(log) == Cardinality({ k \in 1..Len(log) : log[k].op = "add" })

AddTask(log, kind, owner) ==
    Append(log, [op |-> "add", task |-> TaskCount(log) + 1, kind |-> kind,
                 owner |-> owner, consumer |-> 0])

AddDependency(log, consumer, producer, owner) ==
    Append(log, [op |-> "dep", task |-> producer, kind |-> "dep",
                 owner |-> owner, consumer |-> consumer])

Edges(log) ==
    { <<log[k].consumer, log[k].task>> :
        k \in { j \in 1..Len(log) : log[j].op = "dep" } }

\* --------------------------------------------------------------- the stack

Top == stack[Len(stack)]
HasCur == Top.pos <= Len(Children(Top.list))
Cur == Children(Top.list)[Top.pos]

SetTop(f) == [stack EXCEPT ![Len(stack)] = f]
\* The for loop of prepare_primitives moves to the next instance.
Advance == SetTop([Top EXCEPT !.pos = Top.pos + 1, !.phase = "start"])
Phase(ph) == SetTop([Top EXCEPT !.phase = ph])

Finished == Len(stack) = 1 /\ ~HasCur
\* A step of the traversal with what came of it for the instance.
StepAs(name, i, outcome) ==
    Append(trace, [step |-> name, inst |-> i, outcome |-> outcome,
                   pushed |-> 0])
\* A clip-task synthesis that pushed entries on clip_mask_instances.
ClipStep(i, outcome, pushed) ==
    Append(trace, [step |-> "clip", inst |-> i, outcome |-> outcome,
                   pushed |-> pushed])
Step(name, i) == StepAs(name, i, name)

\* ------------------------------------------------------- segment building

\* MIN_BRUSH_SPLIT_AREA = 128.0 * 128.0
MIN_BRUSH_SPLIT_AREA == 128 * 128

\* Local rect sizes a template may carry: below and at the threshold.
LocalSizes == { [w |-> 100, h |-> 100], [w |-> 128, h |-> 128] }

Area(sz) == sz.w * sz.h

\* Clip items of a clip chain, as write_brush_segment_description reads them:
\* the item kind and the SAME_SPATIAL_NODE flag of the clip instance.
ClipItem(k, same) == [kind |-> k, same_spatial_node |-> same]
ClipItemLists ==
    { <<>>,
      << ClipItem("Image", TRUE) >>,
      << ClipItem("Image", FALSE) >>,
      << ClipItem("RoundedRectangle", TRUE), ClipItem("Image", TRUE) >> }

\* Segment lists of at most n segments; a segment is its may_need_clip_mask.
SegListsUpTo(n) ==
    UNION { [1..k -> [may_need_clip_mask : BOOLEAN]] : k \in 0..n }
SegLists == SegListsUpTo(MaxSegs)
\* Lists the segment builder hands back: none, one or MaxSegs segments.
BuiltLists ==
    { l \in SegLists :
        \A k \in 1..Len(l) : l[k].may_need_clip_mask = (k = 1) }
\* brush_segments of a border or gradient template.
TemplateLists ==
    { l \in SegLists :
        \A k \in 2..Len(l) : l[k].may_need_clip_mask = (k = 1) }

\* The loop over the clip items, lines 1570-1628: FALSE as soon as an image
\* mask positioned by the primitive's own spatial node is met.
RECURSIVE ClipLoop(_, _)
ClipLoop(clips, k) ==
    IF k > Len(clips) THEN TRUE
    ELSE IF ~clips[k].same_spatial_node THEN ClipLoop(clips, k + 1)
    ELSE IF clips[k].kind = "Image" THEN FALSE
    ELSE ClipLoop(clips, k + 1)

\* Image masks do not stop the segmentation.
WriteBrushSegmentDescriptionNoBail(size, clips) ==
    Area(size) >= MIN_BRUSH_SPLIT_AREA

\* write_brush_segment_description, lines 1549-1631: whether the segment
\* builder is to be run.
WriteBrushSegmentDescription(size, clips) ==
    IF Area(size) < MIN_BRUSH_SPLIT_AREA THEN FALSE ELSE ClipLoop(clips, 1)

\* The comparison off by one: a single segment is stored.
NotWorthSegmentsOffByOne(segs) == Len(segs) < 1

\* segments.len() <= 1, line 1739.
NotWorthSegments(segs) == Len(segs) <= 1

\* The block is run whatever the index is.
BuildFromAnyIndex(st, b) ==
    LET segs == IF WriteBrushSegmentDescription(b.size, b.clips)
                THEN b.built ELSE <<>>
    IN  IF NotWorthSegments(segs)
        THEN [st EXCEPT !.index = UNUSED]
        ELSE [st EXCEPT
                !.segments = st.segments \o segs,
                !.segment_instances =
                    Append(st.segment_instances,
                           [start |-> Len(st.segments) + 1,
                            len |-> Len(segs)]),
                !.index = Len(st.segment_instances) + 1]

\* The block under `if *segment_instance_index == INVALID`, lines 1704-1751.
\* st: [index, segments, segment_instances, segments_are_valid].
BuildFromInvalid(st, b) ==
    IF st.index # INVALID THEN st
    ELSE
        LET segs == IF WriteBrushSegmentDescription(b.size, b.clips)
                    THEN b.built ELSE <<>>
        IN  IF NotWorthSegments(segs)
            THEN [st EXCEPT !.index = UNUSED]
            ELSE [st EXCEPT
                    !.segments = st.segments \o segs,
                    !.segment_instances =
                        Append(st.segment_instances,
                               [start |-> Len(st.segments) + 1,
                                len |-> Len(segs)]),
                    !.index = Len(st.segment_instances) + 1]

\* build_segments_if_needed, lines 1633-1752. b is what the data stores, the
\* resource cache and the segment builder answer: tiling, size, clips, built.
BuildSegmentsIfNeeded(i, b) ==
    LET st == [index |-> inst[i].segment_instance_index,
               segments |-> segments,
               segment_instances |-> segment_instances,
               segments_are_valid |-> pics[i].segments_are_valid]
        k == KindOf(i)
    IN  IF k \in {"Rectangle", "YuvImage"} THEN BuildFromInvalid(st, b)
        ELSE IF k = "Image" THEN
            IF b.tiling THEN [st EXCEPT !.index = UNUSED]
            ELSE BuildFromInvalid(st, b)
        ELSE IF k = "Picture" THEN
            IF pics[i].can_use_segments
            THEN BuildFromInvalid(
                    [st EXCEPT
                        !.index = IF st.segments_are_valid THEN st.index
                                  ELSE INVALID,
                        !.segments_are_valid = TRUE], b)
            ELSE st
        ELSE st

\* The segments are built whether or not the unclipped rect was found.
SegmentsBuiltBeforeMapping(unclipped, i, b) == BuildSegmentsIfNeeded(i, b)

\* The head of update_clip_task, lines 1389-1406: the return on a missing
\* unclipped device rect (line 1395) comes before build_segments_if_needed.
SegmentsAfterMapping(unclipped, i, b) ==
    IF unclipped THEN BuildSegmentsIfNeeded(i, b)
    ELSE [index |-> inst[i].segment_instance_index,
          segments |-> segments,
          segment_instances |-> segment_instances,
          segments_are_valid |-> pics[i].segments_are_valid]

\* What the build reads, given the state: unread answers take a default so
\* that one behaviour of the code is one choice.
BuildDefault ==
    [tiling |-> FALSE, size |-> [w |-> 128, h |-> 128], clips |-> <<>>,
     built |-> <<>>]

BuildReadsIndex(i) ==
    \/ KindOf(i) \in {"Rectangle", "YuvImage", "Image"}
    \/ KindOf(i) = "Picture" /\ pics[i].can_use_segments

BuildStartsInvalid(i) ==
    \/ inst[i].segment_instance_index = INVALID
    \/ KindOf(i) = "Picture" /\ ~pics[i].segments_are_valid

BuildOracles(i) ==
    { b \in [tiling : BOOLEAN, size : LocalSizes, clips : ClipItemLists,
             built : BuiltLists] :
        LET reads == BuildReadsIndex(i) /\ ~b.tiling /\ BuildStartsInvalid(i)
            desc == WriteBrushSegmentDescription(b.size, b.clips)
        IN  /\ (KindOf(i) # "Image" => b.tiling = BuildDefault.tiling)
            /\ (~reads => b.size = BuildDefault.size)
            /\ (~(reads /\ Area(b.size) >= MIN_BRUSH_SPLIT_AREA)
                    => b.clips = BuildDefault.clips)
            /\ (~(reads /\ desc) => b.built = BuildDefault.built)
            /\ (~Rich => b.size = BuildDefault.size
                            /\ b.clips = BuildDefault.clips) }

\* ----------------------------------------------------- clip-task synthesis

ClipChains == [needs_mask : BOOLEAN, has_non_local_clips : BOOLEAN]

ClipMaskNone == [kind |-> "None", task |-> 0]
ClipMaskClipped == [kind |-> "Clipped", task |-> 0]
ClipMaskMask(t) == [kind |-> "Mask", task |-> t]

\* The edge hung on the surface's root task instead of its port.
MaskDependencyOnRoot(log, s, task, i) ==
    AddDependency(log, Unwrap(surfaces[s]).root, task, i)

\* The edge registered for a new mask task: the consumer is the port of the
\* surface that owns the primitive (lines 1465-1468 and 1534-1539).
MaskDependency(log, s, task, i) ==
    AddDependency(log, Unwrap(surfaces[s]).port, task, i)

\* A surface without render tasks: the edge goes to the first task of the
\* graph and the stage carries on.
NewMaskOnOtherTask(w, s, i) ==
    LET log1 == AddTask(w.log, "mask", i)
    IN  IF ~IsSome(surfaces[s])
        THEN [w EXCEPT !.log = AddDependency(log1, 1, TaskCount(log1), i)]
        ELSE [w EXCEPT !.log = MaskDependency(log1, s, TaskCount(log1), i)]

\* RenderTask::new_mask followed by the port lookup and add_dependency. The
\* lookup unwraps the surface's render tasks: a surface without tasks panics
\* after the mask task was added. w: [log, cmi, panicked].
NewMaskWithDependency(w, s, i) ==
    LET log1 == AddTask(w.log, "mask", i)
    IN  IF ~IsSome(surfaces[s])
        THEN [w EXCEPT !.log = log1, !.panicked = TRUE]
        ELSE [w EXCEPT !.log = MaskDependency(log1, s, TaskCount(log1), i)]

\* The early return of update_brush_segment_clip_task, lines 1490-1493.
SegmentNeedsNoMask(may_need_clip_mask, chain) ==
    ~chain.needs_mask \/ (~may_need_clip_mask /\ ~chain.has_non_local_clips)

\* A segment whose rebuilt clip chain is absent pushes nothing.
SegmentTaskSkipsAbsent(w, s, i, may_need_clip_mask, chain, device) ==
    IF ~IsSome(chain) THEN w
    ELSE IF SegmentNeedsNoMask(may_need_clip_mask, Unwrap(chain))
    THEN [w EXCEPT !.cmi = Append(w.cmi, ClipMaskNone)]
    ELSE IF ~device
    THEN [w EXCEPT !.cmi = Append(w.cmi, ClipMaskClipped)]
    ELSE
        LET w1 == NewMaskWithDependency(w, s, i)
        IN  IF w1.panicked THEN w1
            ELSE [w1 EXCEPT
                    !.cmi = Append(w1.cmi, ClipMaskMask(TaskCount(w1.log)))]

\* update_brush_segment_clip_task, lines 1475-1546, followed by the push of
\* its result (lines 1318 and 1361). chain: None or Some(clip chain);
\* device: whether the world rect maps, intersects the bounding rect and
\* get_clipped_device_rect finds a non-empty rect.
UpdateBrushSegmentClipTask(w, s, i, may_need_clip_mask, chain, device) ==
    IF ~IsSome(chain)
    THEN [w EXCEPT !.cmi = Append(w.cmi, ClipMaskClipped)]
    ELSE IF SegmentNeedsNoMask(may_need_clip_mask, Unwrap(chain))
    THEN [w EXCEPT !.cmi = Append(w.cmi, ClipMaskNone)]
    ELSE IF ~device
    THEN [w EXCEPT !.cmi = Append(w.cmi, ClipMaskClipped)]
    ELSE
        LET w1 == NewMaskWithDependency(w, s, i)
        IN  IF w1.panicked THEN w1
            ELSE [w1 EXCEPT
                    !.cmi = Append(w1.cmi, ClipMaskMask(TaskCount(w1.log)))]

\* The loop over the segments, lines 1322-1362; a panic unwinds out of it.
RECURSIVE SegmentLoop(_, _, _, _, _, _)
SegmentLoop(w, s, i, segs, so, k) ==
    IF k > Len(segs) \/ w.panicked THEN w
    ELSE SegmentLoop(
            UpdateBrushSegmentClipTask(w, s, i, segs[k].may_need_clip_mask,
                                       so[k].chain, so[k].device),
            s, i, segs, so, k + 1)

\* What build_clip_chain_instance and the device mapping answer for a segment.
SegOracle ==
    { [chain |-> None, device |-> FALSE] }
    \cup { [chain |-> Some(c), device |-> d] : c \in ClipChains, d \in BOOLEAN }

\* The segment list update_clip_task_for_brush works on, lines 1196-1287:
\* "none" (return false), or the list. st is the state the build left,
\* tmpl the template's brush_segments.
BrushSegments(i, st, tmpl) ==
    LET k == KindOf(i)
        stored == SubSeq(st.segments,
                         st.segment_instances[st.index].start,
                         st.segment_instances[st.index].start
                            + st.segment_instances[st.index].len - 1)
    IN  IF k \in {"TextRun", "Clear", "LineDecoration", "Backdrop"}
            THEN [sel |-> "none", segs |-> <<>>]
        ELSE IF k = "Image" THEN
            IF st.index = UNUSED THEN [sel |-> "none", segs |-> <<>>]
            ELSE IF st.index = INVALID THEN [sel |-> "panic", segs |-> <<>>]
            ELSE [sel |-> "list", segs |-> stored]
        ELSE IF k = "Picture" THEN
            IF st.index \in {UNUSED, INVALID}
            THEN [sel |-> "none", segs |-> <<>>]
            ELSE [sel |-> "list", segs |-> stored]
        ELSE IF k \in {"YuvImage", "Rectangle"} THEN
            IF st.index = INVALID THEN [sel |-> "panic", segs |-> <<>>]
            ELSE IF st.index = UNUSED THEN [sel |-> "none", segs |-> <<>>]
            ELSE [sel |-> "list", segs |-> stored]
        ELSE IF k \in {"ImageBorder", "NormalBorder"} THEN
            [sel |-> "list", segs |-> tmpl]
        ELSE \* the three gradients
            IF tmpl = <<>> THEN [sel |-> "none", segs |-> <<>>]
            ELSE [sel |-> "list", segs |-> tmpl]

ReadsTemplate(i) ==
    KindOf(i) \in {"ImageBorder", "NormalBorder", "LinearGradient",
                   "RadialGradient", "ConicGradient"}

\* The per-segment answers the brush path reads: none for an empty list, the
\* primitive's own chain for one segment, a rebuilt chain per segment else.
\* Answers that are not read take FALSE.
SegmentOracleRead(seg, o) ==
    IF ~IsSome(o.chain) THEN ~o.device
    ELSE LET c == Unwrap(o.chain)
         IN  /\ ~c.needs_mask => ~c.has_non_local_clips
             /\ (c.needs_mask /\ seg.may_need_clip_mask)
                    => ~c.has_non_local_clips
             /\ SegmentNeedsNoMask(seg.may_need_clip_mask, c) => ~o.device

\* The clip chain is rebuilt for a single segment as well.
SegmentOraclesRebuilt(segs, chain) ==
    IF Len(segs) = 0 THEN { <<>> }
    ELSE { so \in [1..Len(segs) -> SegOracle] :
            \A k \in 1..Len(segs) : SegmentOracleRead(segs[k], so[k]) }

\* What update_brush_segment_clip_task is handed for each segment: for a
\* single segment the primitive's own chain (line 1307), otherwise what
\* build_clip_chain_instance answers for the segment (lines 1332-1346).
SegmentOracles(segs, chain) ==
    IF Len(segs) = 0 THEN { <<>> }
    ELSE IF Len(segs) = 1
    THEN { << [chain |-> Some(chain), device |-> d] >> :
            d \in IF SegmentNeedsNoMask(segs[1].may_need_clip_mask, chain)
                  THEN {FALSE} ELSE BOOLEAN }
    ELSE { so \in [1..Len(segs) -> SegOracle] :
            \A k \in 1..Len(segs) :
                /\ SegmentOracleRead(segs[k], so[k])
                /\ (~Rich /\ IsSome(so[k].chain))
                        => Unwrap(so[k].chain).needs_mask /\ so[k].device }

\* The index taken after the push instead of before it.
FullPrimitiveMaskIndexAfterPush(r, s, i, chain, device) ==
    IF ~(chain.needs_mask /\ device) THEN r
    ELSE
        LET log1 == AddTask(r.log, "mask", i)
            task == TaskCount(log1)
            r1 == [r EXCEPT !.log = log1,
                            !.cmi = Append(r.cmi, ClipMaskMask(task)),
                            !.clip_task_index = Len(r.cmi) + 1]
        IN  IF ~IsSome(surfaces[s]) THEN [r1 EXCEPT !.panicked = TRUE]
            ELSE [r1 EXCEPT !.log = MaskDependency(log1, s, task, i)]

\* The full-primitive mask of update_clip_task, lines 1433-1470.
\* r: [log, cmi, panicked, clip_task_index].
FullPrimitiveMask(r, s, i, chain, device) ==
    IF ~(chain.needs_mask /\ device) THEN r
    ELSE
        LET log1 == AddTask(r.log, "mask", i)
            task == TaskCount(log1)
            r1 == [r EXCEPT !.log = log1,
                            !.cmi = Append(r.cmi, ClipMaskMask(task)),
                            !.clip_task_index = Len(r.cmi)]
        IN  IF ~IsSome(surfaces[s]) THEN [r1 EXCEPT !.panicked = TRUE]
            ELSE [r1 EXCEPT !.log = MaskDependency(log1, s, task, i)]

\* Without the early out on an empty segment list.
ClipTaskForNoEarlyOut(i, s, st, chain, tmpl, so, device) ==
    LET bs == BrushSegments(i, st, tmpl)
        r0 == [log |-> graph_log, cmi |-> clip_mask_instances,
               panicked |-> FALSE,
               clip_task_index |-> prim_info[i].clip_task_index]
    IN  IF bs.sel = "panic" THEN [r0 EXCEPT !.panicked = TRUE]
        ELSE IF bs.sel = "none" THEN FullPrimitiveMask(r0, s, i, chain, device)
        ELSE
            LET w == SegmentLoop([log |-> r0.log, cmi |-> r0.cmi,
                                  panicked |-> FALSE],
                                 s, i, bs.segs, so, 1)
            IN  [log |-> w.log, cmi |-> w.cmi, panicked |-> w.panicked,
                 clip_task_index |-> Len(clip_mask_instances)]

\* update_clip_task_for_brush then the fallback, lines 1409-1470.
\* r: [log, cmi, panicked, clip_task_index].
ClipTaskFor(i, s, st, chain, tmpl, so, device) ==
    LET bs == BrushSegments(i, st, tmpl)
        r0 == [log |-> graph_log, cmi |-> clip_mask_instances,
               panicked |-> FALSE,
               clip_task_index |-> prim_info[i].clip_task_index]
    IN  IF bs.sel = "panic" THEN [r0 EXCEPT !.panicked = TRUE]
        ELSE IF bs.sel = "none" THEN FullPrimitiveMask(r0, s, i, chain, device)
        ELSE IF bs.segs = <<>> THEN r0
        ELSE
            LET w == SegmentLoop([log |-> r0.log, cmi |-> r0.cmi,
                                  panicked |-> FALSE],
                                 s, i, bs.segs, so, 1)
            IN  [log |-> w.log, cmi |-> w.cmi, panicked |-> w.panicked,
                 clip_task_index |-> Len(clip_mask_instances)]

\* ------------------------------------------------- gradient stop-run walk

\* Gradient offsets are counted in tenths: GradUnit is the offset 1.0.
GradUnit == 10
\* GRADIENT_FP_STOPS, the number of stops one cached segment holds.
GRADIENT_FP_STOPS == 4
\* Longest stop list of a gradient template.
MaxStops == 5

Min(a, b) == IF a < b THEN a ELSE b
Max(a, b) == IF a > b THEN a ELSE b

\* f32::floor on an offset, in tenths.
FloorOffset(x) == (x \div GradUnit) * GradUnit

\* The comparison made on the colors instead of the offsets.
IsHardStopByColor(stops, last) == stops[last + 1].color = stops[last].color

\* stops[last+1].offset == stops[last].offset, line 696.
IsHardStop(stops, last) == stops[last + 1].offset = stops[last].offset

\* The inner while of emit_segments, lines 691-702 (indices from 1).
RECURSIVE ScanRun(_, _, _)
ScanRun(stops, first, last) ==
    IF last < Len(stops) /\ last - first + 1 < GRADIENT_FP_STOPS
    THEN IF IsHardStop(stops, last)
         THEN [last_stop |-> last, hard_stop |-> TRUE]
         ELSE ScanRun(stops, first, last + 1)
    ELSE [last_stop |-> last, hard_stop |-> FALSE]

\* The next run always starts after the last stop.
NextFirstStopSkips(last, hard) == last + 1

\* first_stop = if hard_stop { last_stop + 1 } else { last_stop }.
NextFirstStop(last, hard) == IF hard THEN last + 1 ELSE last

\* The cache key of a run, lines 721-733: GRADIENT_FP_STOPS slots, the unused
\* ones left empty.
GradientCacheKey(g, first, num, seg_start, seg_end) ==
    [kind |-> "Gradient", orientation |-> g.orientation,
     start_stop_point |-> <<seg_start, seg_end>>,
     stops |-> [k \in 1..GRADIENT_FP_STOPS |->
                    IF k <= num THEN g.stops[first + k - 1]
                    ELSE [offset |-> 0, color |-> 0]],
     size |-> g.task_size]

\* The primitive's extent along and across the gradient's axis.
AlongSize(orientation, size) ==
    IF orientation = "Horizontal" THEN size.w ELSE size.h
AcrossSize(orientation, size) ==
    IF orientation = "Horizontal" THEN size.h ELSE size.w

\* One pass of the outer while of emit_segments over the run that starts at
\* first, lines 681-790. The local rect of a run is kept along the gradient's
\* axis as numerators over den = prim_end_offset - prim_start_offset.
EmitRun(g, first) ==
    LET sc == ScanRun(g.stops, first, first)
        last == sc.last_stop
        num == last - first + 1
        seg_start == Max(g.start_offset, g.stops[first].offset)
        seg_end == Min(g.end_offset, g.stops[last].offset)
        visible == ~(g.stops[last].offset < g.start_offset)
        den == g.prim_end_offset - g.prim_start_offset
        origin_num ==
            (seg_start + g.gradient_offset_base - g.prim_start_offset)
                * AlongSize(g.orientation, g.prim_size)
        length_num ==
            (seg_end - seg_start) * AlongSize(g.orientation, g.prim_size)
        area_positive ==
            length_num * AcrossSize(g.orientation, g.prim_size) > 0
    IN  [first_stop |-> first, last_stop |-> last, hard_stop |-> sc.hard_stop,
         num_stops |-> num, visible |-> visible,
         start_point |-> seg_start, end_point |-> seg_end,
         base |-> g.gradient_offset_base,
         origin_num |-> origin_num, length_num |-> length_num, den |-> den,
         requested |-> num # 0 /\ visible /\ area_positive,
         key |-> GradientCacheKey(g, first, num, seg_start, seg_end),
         next |-> IF num = 0 THEN last + 1
                  ELSE NextFirstStop(last, sc.hard_stop)]

\* emit_segments, lines 658-791: the runs it walks, in order.
RECURSIVE EmitSegments(_, _, _)
EmitSegments(g, first, runs) ==
    IF ~(first < Len(g.stops)) THEN runs
    ELSE IF g.stops[first].offset > g.end_offset THEN runs
    ELSE LET run == EmitRun(g, first)
         IN  EmitSegments(g, run.next, Append(runs, run))

\* Lines 618-634: the stop keys, reversed when the template says so.
StopKeys(t) ==
    IF t.reverse_stops
    THEN [k \in 1..Len(t.stops) |->
            [offset |-> GradUnit - t.stops[Len(t.stops) + 1 - k].offset,
             color |-> t.stops[Len(t.stops) + 1 - k].color]]
    ELSE t.stops

\* Lines 799-811: boundary stops of the clamp branch.
ClampStops(stops, ps, pe) ==
    LET a == IF ps < 0
             THEN << [offset |-> ps, color |-> stops[1].color] >> \o stops
             ELSE stops
    IN  IF pe > GradUnit
        THEN Append(a, [offset |-> pe, color |-> a[Len(a)].color])
        ELSE a

\* texture_cache::TEXTURE_REGION_DIMENSIONS
TEXTURE_REGION_DIMENSIONS == 512

\* Lines 602-615, for a gradient whose start point lies at t.start along its
\* axis and whose length along it is t.length: the offsets at which the
\* primitive starts and ends, and the size of the cached task.
PrimStartOffset(t) == ((0 - t.start) * GradUnit) \div t.length
PrimEndOffset(t) ==
    ((AlongSize(t.orientation, t.prim_size) - t.start) * GradUnit)
        \div t.length
TaskSize(orientation) ==
    IF orientation = "Vertical"
    THEN [w |-> 16, h |-> TEXTURE_REGION_DIMENSIONS]
    ELSE [w |-> TEXTURE_REGION_DIMENSIONS, h |-> 16]

EmitInput(t, stops, start_offset, end_offset, base) ==
    [stops |-> stops, start_offset |-> start_offset, end_offset |-> end_offset,
     gradient_offset_base |-> base,
     prim_start_offset |-> PrimStartOffset(t),
     prim_end_offset |-> PrimEndOffset(t),
     prim_size |-> t.prim_size, orientation |-> t.orientation,
     task_size |-> TaskSize(t.orientation)]

\* gradient_offset_base + 1.0 in f32, line 838, for a whole base: every
\* integer below 2^24 = 16777216 is an f32, so the sum is exact; from 2^24 on
\* the f32 values are 2 apart, the sum lies halfway between two of them and
\* is rounded to the one with the even mantissa.
AddOneF32(base) ==
    LET whole == base \div GradUnit
    IN  IF base % GradUnit = 0 /\ whole >= 16777216
        THEN IF (whole \div 2) % 2 = 0 THEN base ELSE base + 2 * GradUnit
        ELSE base + GradUnit

\* The repeat branch, lines 827-853: one emit_segments per window. A window
\* that leaves segment_start_point where it was is repeated for ever; its
\* runs are listed once.
RECURSIVE RepeatWindows(_, _, _)
RepeatWindows(t, segment_start_point, runs) ==
    IF ~(segment_start_point < PrimEndOffset(t)) THEN runs
    ELSE
        LET base == FloorOffset(segment_start_point)
            repeat_start == segment_start_point - base
            repeat_end == Min(AddOneF32(base), PrimEndOffset(t)) - base
            emitted == EmitSegments(EmitInput(t, StopKeys(t), repeat_start,
                                              repeat_end, base), 1, runs)
        IN  IF repeat_end + base = segment_start_point THEN emitted
            ELSE RepeatWindows(t, repeat_end + base, emitted)

\* The windows of the repeat branch, lines 827-853, in order: base,
\* repeat_start and repeat_end of each emit_segments call. A window that
\* leaves segment_start_point where it was is listed once.
RECURSIVE RepeatWindowList(_, _, _)
RepeatWindowList(t, segment_start_point, windows) ==
    IF ~(segment_start_point < PrimEndOffset(t)) THEN windows
    ELSE
        LET base == FloorOffset(segment_start_point)
            repeat_start == segment_start_point - base
            repeat_end == Min(AddOneF32(base), PrimEndOffset(t)) - base
            listed == Append(windows, [base |-> base,
                                       repeat_start |-> repeat_start,
                                       repeat_end |-> repeat_end])
        IN  IF repeat_end + base = segment_start_point THEN listed
            ELSE RepeatWindowList(t, repeat_end + base, listed)

\* Whether the while loop of the repeat branch, lines 827-853, comes to a
\* window that does not move segment_start_point: the loop never ends.
RECURSIVE RepeatLoopHangs(_, _)
RepeatLoopHangs(t, segment_start_point) ==
    IF ~(segment_start_point < PrimEndOffset(t)) THEN FALSE
    ELSE
        LET base == FloorOffset(segment_start_point)
            repeat_end == Min(AddOneF32(base), PrimEndOffset(t)) - base
        IN  \/ repeat_end + base = segment_start_point
            \/ RepeatLoopHangs(t, repeat_end + base)

\* The stop list emit_segments is handed: with the boundary stops in the
\* clamp branch, lines 793-824, as they are in the repeat branch.
WalkedStops(t) ==
    IF t.extend_mode = "Clamp"
        \/ (PrimStartOffset(t) >= 0 /\ PrimEndOffset(t) <= GradUnit)
    THEN ClampStops(StopKeys(t), PrimStartOffset(t), PrimEndOffset(t))
    ELSE StopKeys(t)

\* The cached path of the LinearGradient arm, lines 594-855: every run walked.
LinearGradientRuns(t) ==
    IF ~t.supports_caching THEN <<>>
    ELSE IF t.extend_mode = "Clamp"
            \/ (PrimStartOffset(t) >= 0 /\ PrimEndOffset(t) <= GradUnit)
    THEN EmitSegments(
            EmitInput(t, ClampStops(StopKeys(t), PrimStartOffset(t),
                                    PrimEndOffset(t)),
                      PrimStartOffset(t), PrimEndOffset(t), 0), 1, <<>>)
    ELSE RepeatWindows(t, PrimStartOffset(t), <<>>)

\* The arm does not return: the repeat branch is taken and its loop hangs.
LinearGradientHangs(t) ==
    /\ t.supports_caching
    /\ ~(t.extend_mode = "Clamp"
            \/ (PrimStartOffset(t) >= 0 /\ PrimEndOffset(t) <= GradUnit))
    /\ RepeatLoopHangs(t, PrimStartOffset(t))

\* gradient.cache_segments after the arm: the runs that issued a request.
CacheSegments(runs) == SelectSeq(runs, LAMBDA r : r.requested)

\* ------------------------------------------------------ tile decomposition

FloorDiv(a, b) == a \div b
CeilDiv(a, b) == 0 - ((0 - a) \div b)

\* euclid Rect::intersection: None unless the rects overlap.
Intersection(a, b) ==
    IF Intersects(a, b)
    THEN Some(Rect(Max(a.x0, b.x0), Max(a.y0, b.y0),
                   Min(a.x1, b.x1), Min(a.y1, b.y1)))
    ELSE None

\* image_tiling::repetitions: the origins, a stride apart from the primitive's
\* origin on both axes, of the repetitions that overlap the visible rect.
Repetitions(prim_rect, visible_rect, stride) ==
    LET vis == Intersection(prim_rect, visible_rect)
    IN  IF ~IsSome(vis) THEN <<>>
        ELSE
            LET v == Unwrap(vis)
                nx == IF v.x0 > prim_rect.x0
                      THEN FloorDiv(v.x0 - prim_rect.x0, stride.w) ELSE 0
                ny == IF v.y0 > prim_rect.y0
                      THEN FloorDiv(v.y0 - prim_rect.y0, stride.h) ELSE 0
                x0 == prim_rect.x0 + nx * stride.w
                y0 == prim_rect.y0 + ny * stride.h
                x_count == CeilDiv(v.x1 - x0, stride.w)
                y_count == CeilDiv(v.y1 - y0, stride.h)
            IN  [k \in 1..(x_count * y_count) |->
                    [x |-> x0 + ((k - 1) % x_count) * stride.w,
                     y |-> y0 + ((k - 1) \div x_count) * stride.h]]

\* The tile given the clip rect's size instead of the stretch size.
VisibleTileClipSized(origin, stretch_size, tight_clip_rect) ==
    [local_rect |-> Rect(origin.x, origin.y,
                         origin.x + (tight_clip_rect.x1 - tight_clip_rect.x0),
                         origin.y + (tight_clip_rect.y1 - tight_clip_rect.y0)),
     local_clip_rect |-> tight_clip_rect]

\* The tile pushed for one repetition, lines 1149-1162.
VisibleTile(origin, stretch_size, tight_clip_rect) ==
    [local_rect |-> Rect(origin.x, origin.y,
                         origin.x + stretch_size.w, origin.y + stretch_size.h),
     local_clip_rect |-> tight_clip_rect]

\* decompose_repeated_primitive, lines 1120-1175: the visible tiles. The
\* caller guarantees that the clip rect meets the primitive rect (unwrap).
DecomposeRepeatedPrimitive(d) ==
    LET tight_clip_rect ==
            Unwrap(Intersection(d.combined_local_clip_rect, d.prim_local_rect))
        stride == [w |-> d.stretch_size.w + d.tile_spacing.w,
                   h |-> d.stretch_size.h + d.tile_spacing.h]
        reps == Repetitions(d.prim_local_rect, d.visible_rect, stride)
    IN  [k \in 1..Len(reps) |->
            VisibleTile(reps[k], d.stretch_size, tight_clip_rect)]

\* The instance stays visible whatever the tiles.
VisibilityAfterTilesKept(visibility_info, tiles) == visibility_info

\* Lines 896-898: an empty tile range culls the instance.
VisibilityAfterTiles(visibility_info, tiles) ==
    IF tiles = <<>> THEN INVALID ELSE visibility_info

\* ------------------------------------------------------ mask size clamping

\* MAX_MASK_SIZE = 4096.0
MAX_MASK_SIZE == 4096
\* Device coordinates are counted in quarters of a pixel.
PixelUnit == 4

\* DeviceRect::to_i32 and round_out on coordinates that are not negative.
TruncPx(q) == q \div PixelUnit

\* The clamp without the margin of one pixel: MAX_MASK_SIZE / max(w, h).
AdjustMaskScaleNoMargin(rect, scale) ==
    IF rect.w > MAX_MASK_SIZE * PixelUnit \/ rect.h > MAX_MASK_SIZE * PixelUnit
    THEN
        LET m == IF rect.w > rect.h THEN rect.w ELSE rect.h
            k == MAX_MASK_SIZE
            x0 == (rect.x * k) \div m
            y0 == (rect.y * k) \div m
            x1 == 0 - ((0 - (rect.x + rect.w) * k) \div m)
            y1 == 0 - ((0 - (rect.y + rect.h) * k) \div m)
        IN  [rect |-> [x |-> x0, y |-> y0, w |-> x1 - x0, h |-> y1 - y0],
             scale |-> [num |-> scale.num * k * PixelUnit,
                        den |-> scale.den * m]]
    ELSE [rect |-> [x |-> rect.x \div PixelUnit, y |-> rect.y \div PixelUnit,
                    w |-> rect.w \div PixelUnit, h |-> rect.h \div PixelUnit],
          scale |-> scale]

\* adjust_mask_scale_for_max_size, lines 1805-1819. rect: origin and size in
\* quarter pixels; scale: a fraction num/den. The result's rect is in whole
\* pixels. The arithmetic is exact; the code's is f32.
AdjustMaskScaleForMaxSize(rect, scale) ==
    IF rect.w > MAX_MASK_SIZE * PixelUnit \/ rect.h > MAX_MASK_SIZE * PixelUnit
    THEN
        LET m == Max(rect.w, rect.h)
            k == MAX_MASK_SIZE - 1
            x0 == FloorDiv(rect.x * k, m)
            y0 == FloorDiv(rect.y * k, m)
            x1 == CeilDiv((rect.x + rect.w) * k, m)
            y1 == CeilDiv((rect.y + rect.h) * k, m)
        IN  [rect |-> [x |-> x0, y |-> y0, w |-> x1 - x0, h |-> y1 - y0],
             scale |-> [num |-> scale.num * k * PixelUnit,
                        den |-> scale.den * m]]
    ELSE [rect |-> [x |-> TruncPx(rect.x), y |-> TruncPx(rect.y),
                    w |-> TruncPx(rect.w), h |-> TruncPx(rect.h)],
          scale |-> scale]

ScaleLess(a, b) == a.num * b.den < b.num * a.den

\* -------------------------------------------------------- render task cache

\* resource_cache.request_render_task: an entry with the key answers with its
\* handle; a new key gets an entry and runs the build closure once.
\* c: [entries, log, requests].
FindEntry(entries, key) ==
    { e \in 1..Len(entries) :
        entries[e].key.kind = key.kind /\ entries[e].key = key }

\* A closure that adds its task twice.
BuildCachedTaskTwice(log, key, owner) ==
    AddTask(AddTask(log, key.kind, owner), key.kind, owner)

\* A closure that also makes the root surface's port consume its task.
BuildCachedTaskWithEdge(log, key, owner) ==
    AddDependency(AddTask(log, key.kind, owner), 1, TaskCount(log) + 1, owner)

\* The build closures, lines 323-331, 454-464 and 774-782: one task each.
BuildCachedTask(log, key, owner) == AddTask(log, key.kind, owner)

RequestRenderTask(c, key, owner) ==
    LET found == FindEntry(c.entries, key)
    IN  IF found # {}
        THEN [c EXCEPT !.requests =
                Append(c.requests,
                       [key |-> key, handle |-> CHOOSE e \in found : TRUE,
                        built |-> FALSE, task |-> 0, owner |-> owner])]
        ELSE
            LET log1 == BuildCachedTask(c.log, key, owner)
            IN  [entries |-> Append(c.entries,
                                    [key |-> key, task |-> TaskCount(log1)]),
                 log |-> log1,
                 requests |->
                    Append(c.requests,
                           [key |-> key, handle |-> Len(c.entries) + 1,
                            built |-> TRUE, task |-> TaskCount(log1),
                            owner |-> owner])]

RECURSIVE RequestAll(_, _, _, _)
RequestAll(c, keys, owner, k) ==
    IF k > Len(keys) THEN c
    ELSE RequestAll(RequestRenderTask(c, keys[k], owner), keys, owner, k + 1)

CacheState == [entries |-> cache_entries, log |-> graph_log,
               requests |-> requests]

\* Cache keys, lines 315-318, 443-446 and 766-769: the kind's payload and
\* the target size.
LineDecorationKey(payload, size) ==
    [kind |-> "LineDecoration", payload |-> payload, size |-> size]
BorderSegmentKey(payload, size) ==
    [kind |-> "BorderSegment", payload |-> payload, size |-> size]

\* Keys a line decoration template may carry (None: a solid line).
LineDecorationKeys ==
    { None, Some(LineDecorationKey("wavy", [w |-> 8, h |-> 4])),
      Some(LineDecorationKey("dashed", [w |-> 8, h |-> 4])) }

\* Border segments of a normal border template: the segment's key and the
\* cache size to_cache_size derives from its local task size and the scale.
BorderSegmentLists ==
    UNION { [1..k -> { BorderSegmentKey(pl, [w |-> 8 * sc, h |-> 8 * sc]) :
                        pl \in {"corner", "edge"}, sc \in {1} }] :
            k \in 0..MaxBorderSegs }

\* ------------------------------------------------------ gradient templates

GradientTemplate(offsets, rev, ext, caching, orient, start, length, size) ==
    [stops |-> [k \in 1..Len(offsets) |-> [offset |-> offsets[k], color |-> k]],
     reverse_stops |-> rev, extend_mode |-> ext, supports_caching |-> caching,
     orientation |-> orient, start |-> start, length |-> length,
     prim_size |-> size]

\* Tile inputs: the rects decompose_repeated_primitive reads.
TileInput(clip, prim, visible, stretch, spacing) ==
    [combined_local_clip_rect |-> clip, prim_local_rect |-> prim,
     visible_rect |-> visible, stretch_size |-> stretch,
     tile_spacing |-> spacing]

\* Templates the traversal meets: one that does not support caching, one with
\* a hard stop, one that repeats, and one that repeats a gradient one unit
\* long whose start point lies 2^24 units before the primitive.
TraversalGradients ==
    { GradientTemplate(<<0, 10>>, FALSE, "Clamp", FALSE, "Horizontal", 0, 40,
                       [w |-> 40, h |-> 20]),
      GradientTemplate(<<0, 3, 3, 10>>, FALSE, "Clamp", TRUE, "Horizontal", 0,
                       40, [w |-> 40, h |-> 20]),
      GradientTemplate(<<0, 10>>, FALSE, "Repeat", TRUE, "Vertical", 0, 10,
                       [w |-> 40, h |-> 20]),
      GradientTemplate(<<0, 10>>, FALSE, "Repeat", TRUE, "Horizontal",
                       0 - 16777216, 1, [w |-> 40, h |-> 20]) }

\* None: tile_spacing is zero. Else the rects of a tiled gradient: two
\* visible repetitions, or nothing visible (the zero rect).
TraversalTiles ==
    { None,
      Some(TileInput(Rect(0, 0, 40, 20), Rect(0, 0, 40, 20),
                     Rect(0, 0, 40, 20), [w |-> 16, h |-> 20],
                     [w |-> 4, h |-> 0])),
      Some(TileInput(Rect(0, 0, 40, 20), Rect(0, 0, 40, 20),
                     Rect(0, 0, 0, 0), [w |-> 16, h |-> 20],
                     [w |-> 4, h |-> 0])) }

\* ------------------------------------------------------------- start state

\* Entries the render task cache may hold from earlier frames.
WarmCaches ==
    { <<>>,
      << [key |-> LineDecorationKey("wavy", [w |-> 8, h |-> 4]), task |-> 0] >>,
      << [key |-> BorderSegmentKey("corner", [w |-> 8, h |-> 8]),
          task |-> 0] >> }

RootFrame == [list |-> 0, pos |-> 1, phase |-> "start", surface |-> 0]

\* The render tasks of the surface the stage is entered on.
RootLog == AddTask(<<>>, "picture", 0)
RootTasks == Some([root |-> 1, port |-> 1])

\* Segment instance indices the instances start with: INVALID (never built),
\* UNUSED (declined on an earlier frame) or a stored range of two segments.
StartIndices(kind) ==
    { f \in [DOMAIN kind -> {INVALID, UNUSED, 0}] :
        \A i \in DOMAIN kind : kind[i] \notin SegmentedKinds => f[i] = INVALID }

Stored(f) == { i \in DOMAIN f : f[i] = 0 }
StoredBefore(f, i) == Cardinality({ j \in Stored(f) : j <= i })

PrebuiltSegments == << [may_need_clip_mask |-> TRUE],
                       [may_need_clip_mask |-> FALSE] >>

RECURSIVE Repeat(_, _)
Repeat(seq, n) == IF n = 0 THEN <<>> ELSE seq \o Repeat(seq, n - 1)

\* State on entry to prepare_primitives for a tree of n instances whose kinds
\* come from ks, dirty regions from ds, cache entries from ws and visibility
\* (0: INVALID, 1: inside the dirty rects, 2: outside them) from vs.
InitTraversal(n, ks, ds, ws, vs) ==
    /\ \E p \in AllParents(n) : \E k \in SceneKinds(n, ks, p) :
       \E b \in SceneBackdrops(n, k, p) :
       \E rc \in [1..n -> BOOLEAN] :
        /\ \A i \in 1..n :
            /\ k[i] # "Picture" => ~rc[i]
            /\ (\E j \in 1..n : b[j] = i) => rc[i]
        /\ scene = [kind |-> k, parent |-> p, backdrop |-> b,
                    raster_config |-> rc]
        /\ \E f \in StartIndices(k) : \E v \in [1..n -> vs] :
            /\ inst = [i \in 1..n |->
                        [visibility_info |-> IF v[i] = 0 THEN INVALID ELSE i,
                         segment_instance_index |->
                            IF f[i] = 0 THEN StoredBefore(f, i) ELSE f[i]]]
            /\ prim_info = [i \in 1..n |->
                        [clipped_world_rect |->
                            IF v[i] = 2 THEN Rect(9, 1, 12, 3)
                            ELSE Rect(3, 1, 6, 3),
                         visibility_mask |-> {},
                         clip_task_index |-> INVALID]]
            /\ segments = Repeat(PrebuiltSegments, Cardinality(Stored(f)))
            /\ segment_instances =
                [j \in 1..Cardinality(Stored(f)) |->
                    [start |-> 2 * j - 1, len |-> 2]]
        /\ pics = [i \in 1..n |->
                    [taken |-> FALSE, is_passthrough |-> FALSE,
                     can_use_segments |-> FALSE, segments_are_valid |-> TRUE]]
        /\ surfaces = [i \in 0..n |-> IF i = 0 THEN RootTasks ELSE None]
    /\ dirty_region \in ds
    /\ cache_entries \in ws
    /\ stack = << RootFrame >>
    /\ graph_log = RootLog
    /\ clip_mask_instances = <<>>
    /\ requests = <<>>
    /\ trace = <<>>
    /\ panicked = FALSE
    /\ visible_primitives = 0
    /\ gradient_tiles = <<>>
    /\ fn = [op |-> "enter"]

\* Kinds of the instances of a tree of more than one instance.
NestedKinds ==
    {"Picture", "Rectangle", "LineDecoration", "NormalBorder",
     "LinearGradient", "Backdrop"}

\* A single instance of any kind, with every start state; or a tree of
\* MaxPrims instances, none INVALID on entry, on a cold cache; or a tree one
\* instance larger whose last instance is a backdrop primitive inside the
\* picture before it, every instance visible.
Init ==
    \/ InitTraversal(1, Kinds, DirtyRegions, WarmCaches, 0..2)
    \/ InitTraversal(MaxPrims, NestedKinds,
                     { d \in DirtyRegions : Len(d) = 2 }, { <<>> }, 1..2)
    \/ /\ InitTraversal(MaxPrims + 1, {"Picture", "Backdrop"},
                        { d \in DirtyRegions : Len(d) = 2 }, { <<>> }, {1})
       /\ scene.kind[MaxPrims + 1] = "Backdrop"
       /\ scene.parent[MaxPrims + 1] = MaxPrims

\* ----------------------------------------------------- prepare_primitives

Running == ~panicked /\ HasCur

\* Lines 66-68: an instance that is already invisible is skipped.
SkipInvalid ==
    /\ Running /\ Top.phase = "start"
    /\ inst[Cur].visibility_info = INVALID
    /\ stack' = Advance
    /\ trace' = Step("skip", Cur)
    /\ fn' = [op |-> "skip", inst |-> Cur]
    /\ UNCHANGED << scene, dirty_region, inst, prim_info, pics, surfaces,
                    graph_log, clip_mask_instances, segments,
                    segment_instances, cache_entries, requests, panicked,
                    visible_primitives, gradient_tiles >>

\* Lines 79-83: the bits of every dirty rect the clipped world rect overlaps.
RECURSIVE IncludeDirtyRects(_, _, _, _)
IncludeDirtyRects(mask, world_rect, rects, k) ==
    IF k > Len(rects) THEN mask
    ELSE IncludeDirtyRects(
            IF Intersects(world_rect, rects[k].world_rect)
            THEN mask \cup rects[k].visibility_mask ELSE mask,
            world_rect, rects, k + 1)

\* The test left out: no mask culls.
MaskNeverCulls(mask) == FALSE

\* visibility_mask.is_empty(), line 85.
MaskCulls(mask) == mask = {}

\* Lines 75-89: the dirty-region refinement; an empty mask culls.
DirtyRegionStep ==
    /\ Running /\ Top.phase = "start"
    /\ inst[Cur].visibility_info # INVALID
    /\ LET i == Cur
           mask == IncludeDirtyRects(prim_info[i].visibility_mask,
                                     prim_info[i].clipped_world_rect,
                                     dirty_region, 1)
       IN  /\ prim_info' = [prim_info EXCEPT ![i].visibility_mask = mask]
           /\ IF MaskCulls(mask)
              THEN /\ inst' = [inst EXCEPT ![i].visibility_info = INVALID]
                   /\ stack' = Advance
                   /\ trace' = Step("culled", i)
              ELSE /\ inst' = inst
                   /\ stack' = Phase(IF KindOf(i) = "Picture" THEN "take"
                                     ELSE "clip")
                   /\ trace' = Step("dirty", i)
           /\ fn' = [op |-> "dirty", inst |-> i]
    /\ UNCHANGED << scene, dirty_region, pics, surfaces, graph_log,
                    clip_mask_instances, segments, segment_instances,
                    cache_entries, requests, panicked, visible_primitives,
                    gradient_tiles >>

\* What take_context answers for a picture: None, or the context of its
\* children. tasks: the render tasks it gives its surface ("none": the
\* surface is left without, "single": one task that is root and port,
\* "chain": a port task and a root task that consumes it).
ContextOptions(i) ==
    { None }
    \cup IF scene.raster_config[i]
         THEN { Some([is_passthrough |-> FALSE, tasks |-> t,
                      can_use_segments |-> c, segments_are_valid |-> v]) :
                t \in {"none", "single", "chain"},
                c \in IF Rich THEN BOOLEAN ELSE {FALSE},
                v \in IF Rich THEN BOOLEAN ELSE {TRUE} }
         ELSE { Some([is_passthrough |-> TRUE, tasks |-> "none",
                      can_use_segments |-> FALSE,
                      segments_are_valid |-> TRUE]) }

\* The render tasks take_context creates for a surface and the edge that makes
\* the parent surface's port consume the new surface's root.
SurfaceTasks(log, i, parent_surface, shape) ==
    IF shape = "none" THEN [log |-> log, tasks |-> None]
    ELSE
        LET log1 == AddTask(log, "picture", i)
            port == TaskCount(log1)
            log2 == IF shape = "chain"
                    THEN AddDependency(AddTask(log1, "filter", i),
                                       port + 1, port, i)
                    ELSE log1
            root == TaskCount(log2)
            log3 == IF IsSome(surfaces[parent_surface])
                    THEN AddDependency(
                            log2, Unwrap(surfaces[parent_surface]).port,
                            root, i)
                    ELSE log2
        IN  [log |-> log3, tasks |-> Some([root |-> root, port |-> port])]

\* The picture goes on to its own clip task without its child list being
\* prepared.
SkipChildren(i, surface) == Phase("clip")

\* Lines 182-195: prepare_primitives is called on the child list with the
\* context of the children; the picture waits for it to return.
EnterChildren(i, surface) ==
    Append(Phase("children"),
           [list |-> i, pos |-> 1, phase |-> "start", surface |-> surface])

\* Lines 131-163: take_context of a picture. None culls the instance and
\* returns false; else prepare_primitives is entered on the child list.
TakeContext ==
    /\ Running /\ Top.phase = "take"
    /\ LET i == Cur IN
       \E o \in ContextOptions(i) :
        /\ fn' = [op |-> "take_context", inst |-> i, context |-> o]
        /\ IF ~IsSome(o)
           THEN /\ inst' = [inst EXCEPT ![i].visibility_info = INVALID]
                /\ stack' = Advance
                /\ trace' = Step("take_none", i)
                /\ UNCHANGED << pics, surfaces, graph_log >>
           ELSE LET c == Unwrap(o)
                    st == SurfaceTasks(graph_log, i, Top.surface, c.tasks)
                IN  /\ inst' = inst
                    /\ pics' = [pics EXCEPT ![i] =
                                [taken |-> TRUE,
                                 is_passthrough |-> c.is_passthrough,
                                 can_use_segments |-> c.can_use_segments,
                                 segments_are_valid |-> c.segments_are_valid]]
                    /\ surfaces' = IF c.is_passthrough THEN surfaces
                                   ELSE [surfaces EXCEPT ![i] = st.tasks]
                    /\ graph_log' = st.log
                    /\ stack' = EnterChildren(i, IF c.is_passthrough
                                                 THEN Top.surface ELSE i)
                    /\ trace' = Step("take", i)
    /\ UNCHANGED << scene, dirty_region, prim_info, clip_mask_instances,
                    segments, segment_instances, cache_entries, requests,
                    panicked, visible_primitives, gradient_tiles >>

\* A pass-through picture goes through update_clip_task as well.
ReturnFromChildrenToClip ==
    /\ ~panicked /\ Len(stack) > 1 /\ ~HasCur
    /\ LET below == SubSeq(stack, 1, Len(stack) - 1)
           f == below[Len(below)]
           i == Children(f.list)[f.pos]
       IN  /\ stack' = [below EXCEPT ![Len(below)].phase = "clip"]
           /\ trace' = Step("restore", i)
           /\ fn' = [op |-> "restore_context", inst |-> i]
    /\ UNCHANGED << scene, dirty_region, inst, prim_info, pics, surfaces,
                    graph_log, clip_mask_instances, segments,
                    segment_instances, cache_entries, requests, panicked,
                    visible_primitives, gradient_tiles >>

\* Lines 185-207: the child list is done; restore_context, then the picture
\* itself goes on (a pass-through picture skips update_clip_task).
ReturnFromChildren ==
    /\ ~panicked /\ Len(stack) > 1 /\ ~HasCur
    /\ LET below == SubSeq(stack, 1, Len(stack) - 1)
           f == below[Len(below)]
           i == Children(f.list)[f.pos]
       IN  /\ stack' = [below EXCEPT ![Len(below)].phase =
                            IF pics[i].is_passthrough THEN "interned"
                            ELSE "clip"]
           /\ trace' = Step("restore", i)
           /\ fn' = [op |-> "restore_context", inst |-> i]
    /\ UNCHANGED << scene, dirty_region, inst, prim_info, pics, surfaces,
                    graph_log, clip_mask_instances, segments,
                    segment_instances, cache_entries, requests, panicked,
                    visible_primitives, gradient_tiles >>

\* ----------------------------------------------------------- update_clip_task

TemplateOracles == { l \in TemplateLists : Rich \/ Len(l) <= 1 }

\* Clip chains the visibility pass may have left in prim_info, as far as the
\* path through the segment list bs reads them; for an empty list, which
\* reads nothing, whether the chain needs a mask.
ChainOracles(bs) ==
    IF bs.sel = "panic" \/ (bs.sel = "list" /\ Len(bs.segs) > 1)
    THEN { [needs_mask |-> FALSE, has_non_local_clips |-> FALSE] }
    ELSE IF bs.sel = "list" /\ bs.segs = <<>>
    THEN { c \in ClipChains : ~c.has_non_local_clips }
    ELSE { c \in ClipChains :
            /\ ~c.needs_mask => ~c.has_non_local_clips
            /\ bs.sel = "none" => ~c.has_non_local_clips
            /\ (bs.sel = "list" /\ bs.segs[1].may_need_clip_mask)
                    => ~c.has_non_local_clips }

\* Lines 1389-1396: the unclipped device rect cannot be computed; the
\* function returns before anything else.
UpdateClipTaskUnmapped ==
    /\ Running /\ Top.phase = "clip"
    /\ \E b \in BuildOracles(Cur) :
       LET st == SegmentsAfterMapping(FALSE, Cur, b) IN
        /\ inst' = [inst EXCEPT ![Cur].segment_instance_index = st.index]
        /\ segments' = st.segments
        /\ segment_instances' = st.segment_instances
        /\ pics' = [pics EXCEPT
                        ![Cur].segments_are_valid = st.segments_are_valid]
    /\ stack' = Phase("interned")
    /\ trace' = StepAs("clip", Cur, "unmapped")
    /\ fn' = [op |-> "update_clip_task", inst |-> Cur, unclipped |-> FALSE,
              index_before |-> inst[Cur].segment_instance_index,
              valid_before |-> pics[Cur].segments_are_valid,
              clip_task_before |-> prim_info[Cur].clip_task_index,
              cmi_before |-> Len(clip_mask_instances),
              log_before |-> Len(graph_log),
              segments_before |-> Len(segments),
              instances_before |-> Len(segment_instances)]
    /\ UNCHANGED << scene, dirty_region, prim_info, surfaces, graph_log,
                    clip_mask_instances, cache_entries, requests, panicked,
                    visible_primitives, gradient_tiles >>

\* update_clip_task, lines 1398-1470: build_segments_if_needed, then the
\* brush path, then the full-primitive mask.
UpdateClipTask ==
    /\ Running /\ Top.phase = "clip"
    /\ LET i == Cur
           s == Top.surface
       IN  \E b \in BuildOracles(i) :
           LET st == SegmentsAfterMapping(TRUE, i, b) IN
           \E tmpl \in (IF ReadsTemplate(i) THEN TemplateOracles ELSE { <<>> }) :
           LET bs == BrushSegments(i, st, tmpl) IN
           \E chain \in ChainOracles(bs) :
           \E so \in (IF bs.sel = "list" THEN SegmentOracles(bs.segs, chain)
                      ELSE { <<>> }) :
           \E device \in (IF bs.sel = "none" /\ chain.needs_mask
                          THEN BOOLEAN
                          ELSE { bs.sel = "list" /\ bs.segs = <<>>
                                    /\ chain.needs_mask }) :
           LET r == ClipTaskFor(i, s, st, chain, tmpl, so, device) IN
            /\ inst' = [inst EXCEPT ![i].segment_instance_index = st.index]
            /\ segments' = st.segments
            /\ segment_instances' = st.segment_instances
            /\ pics' = [pics EXCEPT
                            ![i].segments_are_valid = st.segments_are_valid]
            /\ graph_log' = r.log
            /\ clip_mask_instances' = r.cmi
            /\ prim_info' = [prim_info EXCEPT
                                ![i].clip_task_index = r.clip_task_index]
            /\ panicked' = r.panicked
            /\ stack' = IF r.panicked THEN stack ELSE Phase("interned")
            /\ trace' = ClipStep(i,
                    IF \E k \in (Len(clip_mask_instances) + 1)..Len(r.cmi) :
                            r.cmi[k].kind = "Clipped"
                    THEN "clipped" ELSE "clip",
                    Len(r.cmi) - Len(clip_mask_instances))
            /\ fn' = [op |-> "update_clip_task", inst |-> i,
                      unclipped |-> TRUE, surface |-> s, chain |-> chain,
                      build |-> b, index_before |-> inst[i].segment_instance_index,
                      valid_before |-> pics[i].segments_are_valid,
                      sel |-> bs.sel, segs |-> bs.segs, oracles |-> so,
                      device |-> device, cmi_before |-> Len(clip_mask_instances),
                      log_before |-> Len(graph_log),
                      segments_before |-> Len(segments),
                      instances_before |-> Len(segment_instances),
                      ran_builder |-> /\ BuildReadsIndex(i)
                                      /\ ~b.tiling
                                      /\ BuildStartsInvalid(i)]
    /\ UNCHANGED << scene, dirty_region, surfaces, cache_entries, requests,
                    visible_primitives, gradient_tiles >>

\* ------------------------------------------ prepare_interned_prim_for_render

Interned(ks) == Running /\ Top.phase = "interned" /\ KindOf(Cur) \in ks

\* prepare_prim_for_render returns true (line 257) and the caller counts the
\* instance (line 106); a panic unwinds instead.
ReturnAs(i, panic, outcome) ==
    /\ panicked' = panic
    /\ stack' = IF panic THEN stack ELSE Advance
    /\ visible_primitives' =
            IF panic THEN visible_primitives ELSE visible_primitives + 1
    /\ trace' = StepAs("interned", i, outcome)

Return(i, panic) == ReturnAs(i, panic, "interned")

\* What the tile decomposition d left of the instance.
TileOutcome(d, tiles) ==
    IF IsSome(d) /\ tiles = <<>> THEN "no_tiles" ELSE "interned"

\* write_segment, lines 1094-1118: the assertion on INVALID (without it the
\* lookup in segment_instances is out of bounds).
WriteSegmentPanics(index) == index = INVALID

\* TextRun, Clear and ImageBorder, lines 335-392 and 472-482: no render task.
PrepareNoTask ==
    /\ Interned({"TextRun", "Clear", "ImageBorder"})
    /\ Return(Cur, FALSE)
    /\ fn' = [op |-> "prepare_interned", inst |-> Cur]
    /\ UNCHANGED << scene, dirty_region, inst, prim_info, pics, surfaces,
                    graph_log, clip_mask_instances, segments,
                    segment_instances, cache_entries, requests,
                    gradient_tiles >>

\* LineDecoration, lines 279-334: a template with a cache key requests a
\* cached task.
PrepareLineDecoration ==
    /\ Interned({"LineDecoration"})
    /\ \E key \in LineDecorationKeys :
       LET c == IF IsSome(key)
                THEN RequestRenderTask(CacheState, Unwrap(key), Cur)
                ELSE CacheState
       IN  /\ cache_entries' = c.entries
           /\ graph_log' = c.log
           /\ requests' = c.requests
           /\ fn' = [op |-> "prepare_interned", inst |-> Cur,
                     keys |-> IF IsSome(key) THEN key ELSE <<>>,
                     requests_before |-> Len(requests),
                     entries_before |-> cache_entries,
                     log_before |-> Len(graph_log)]
    /\ Return(Cur, FALSE)
    /\ UNCHANGED << scene, dirty_region, inst, prim_info, pics, surfaces,
                    clip_mask_instances, segments, segment_instances,
                    gradient_tiles >>

\* NormalBorder, lines 393-471: one request per border segment.
PrepareNormalBorder ==
    /\ Interned({"NormalBorder"})
    /\ \E keys \in { l \in BorderSegmentLists :
                        Rich \/ \A k \in 1..Len(l) : l[k].payload = "corner" } :
       LET c == RequestAll(CacheState, keys, Cur, 1)
       IN  /\ cache_entries' = c.entries
           /\ graph_log' = c.log
           /\ requests' = c.requests
           /\ fn' = [op |-> "prepare_interned", inst |-> Cur, keys |-> keys,
                     requests_before |-> Len(requests),
                     entries_before |-> cache_entries,
                     log_before |-> Len(graph_log)]
    /\ Return(Cur, FALSE)
    /\ UNCHANGED << scene, dirty_region, inst, prim_info, pics, surfaces,
                    clip_mask_instances, segments, segment_instances,
                    gradient_tiles >>

\* Rectangle, YuvImage and Image, lines 483-578: write_segment on the
\* instance's segment_instance_index.
PrepareSegmented ==
    /\ Interned({"Rectangle", "YuvImage", "Image"})
    /\ Return(Cur, WriteSegmentPanics(inst[Cur].segment_instance_index))
    /\ fn' = [op |-> "prepare_interned", inst |-> Cur,
              index |-> inst[Cur].segment_instance_index]
    /\ UNCHANGED << scene, dirty_region, inst, prim_info, pics, surfaces,
                    graph_log, clip_mask_instances, segments,
                    segment_instances, cache_entries, requests,
                    gradient_tiles >>

\* Lines 868-898, 927-962 and 988-1023: a gradient with tile spacing is
\* decomposed into its visible tiles; none left culls the instance.
\* d: None (no tile spacing) or Some(tile input). v: [visibility_info, tiles].
TileGradient(i, d) ==
    IF ~IsSome(d)
    THEN [visibility_info |-> inst[i].visibility_info, tiles |-> <<>>]
    ELSE LET tiles == DecomposeRepeatedPrimitive(Unwrap(d))
         IN  [visibility_info |->
                VisibilityAfterTiles(inst[i].visibility_info, tiles),
              tiles |-> tiles]

\* The cache keys of the runs that issue a request, in order.
RunKeys(runs) ==
    [k \in 1..Len(CacheSegments(runs)) |-> CacheSegments(runs)[k].key]

\* LinearGradient, lines 579-903. When the loop of the repeat branch hangs
\* the arm is never left: the instance stays where it is in the traversal.
PrepareLinearGradient ==
    /\ Interned({"LinearGradient"})
    /\ \E t \in TraversalGradients :
       \E d \in (IF Rich /\ ~LinearGradientHangs(t) THEN TraversalTiles
                  ELSE { None }) :
       LET runs == LinearGradientRuns(t)
           c == RequestAll(CacheState, RunKeys(runs), Cur, 1)
           v == TileGradient(Cur, d)
       IN  /\ cache_entries' = c.entries
           /\ graph_log' = c.log
           /\ requests' = c.requests
           /\ gradient_tiles' = gradient_tiles \o v.tiles
           /\ inst' = [inst EXCEPT ![Cur].visibility_info = v.visibility_info]
           /\ fn' = [op |-> "prepare_interned", inst |-> Cur,
                     keys |-> RunKeys(runs), tile_input |-> d,
                     tiles |-> v.tiles,
                     requests_before |-> Len(requests),
                     entries_before |-> cache_entries,
                     log_before |-> Len(graph_log)]
           /\ IF LinearGradientHangs(t)
              THEN /\ stack' = Phase("hung")
                   /\ trace' = Step("hang", Cur)
                   /\ UNCHANGED << panicked, visible_primitives >>
              ELSE ReturnAs(Cur, FALSE, TileOutcome(d, v.tiles))
    /\ UNCHANGED << scene, dirty_region, prim_info, pics, surfaces,
                    clip_mask_instances, segments, segment_instances >>

\* RadialGradient and ConicGradient, lines 904-1025.
PrepareTiledGradient ==
    /\ Interned({"RadialGradient", "ConicGradient"})
    /\ \E d \in TraversalTiles :
       LET v == TileGradient(Cur, d)
       IN  /\ gradient_tiles' = gradient_tiles \o v.tiles
           /\ inst' = [inst EXCEPT ![Cur].visibility_info = v.visibility_info]
           /\ fn' = [op |-> "prepare_interned", inst |-> Cur,
                     tile_input |-> d, tiles |-> v.tiles]
           /\ ReturnAs(Cur, FALSE, TileOutcome(d, v.tiles))
    /\ UNCHANGED << scene, dirty_region, prim_info, pics, surfaces, graph_log,
                    clip_mask_instances, segments, segment_instances,
                    cache_entries, requests >>

\* Picture, lines 1026-1073: prepare_for_render, then write_segment when the
\* picture can use segments; a picture that cannot be prepared is culled.
PreparePicture ==
    /\ Interned({"Picture"})
    /\ \E ok \in BOOLEAN :
        /\ inst' = [inst EXCEPT ![Cur].visibility_info =
                        IF ok THEN @ ELSE INVALID]
        /\ ReturnAs(Cur,
                    /\ ok
                    /\ pics[Cur].can_use_segments
                    /\ WriteSegmentPanics(inst[Cur].segment_instance_index),
                    IF ok THEN "interned" ELSE "not_prepared")
        /\ fn' = [op |-> "prepare_interned", inst |-> Cur,
                  prepare_for_render |-> ok,
                  index |-> inst[Cur].segment_instance_index]
    /\ UNCHANGED << scene, dirty_region, prim_info, pics, surfaces, graph_log,
                    clip_mask_instances, segments, segment_instances,
                    cache_entries, requests, gradient_tiles >>

\* The two tasks of the edge swapped.
BackdropDependencySwapped(log, s, backdrop_tasks, i) ==
    AddDependency(log, backdrop_tasks.root, Unwrap(surfaces[s]).port, i)

\* The edge of line 1082: the port of the surface the backdrop primitive is
\* on consumes the root of the backdrop picture's surface.
BackdropDependency(log, s, backdrop_tasks, i) ==
    AddDependency(log, Unwrap(surfaces[s]).port, backdrop_tasks.root, i)

\* Backdrop, lines 1074-1089. The surface of the backdrop picture may be
\* without render tasks (the primitive is culled); the primitive's own
\* surface without render tasks is the unwrap of line 1081.
PrepareBackdrop ==
    /\ Interned({"Backdrop"})
    /\ LET i == Cur
           s == Top.surface
           backdrop_surface == scene.backdrop[i]
           has_tasks == IsSome(surfaces[backdrop_surface])
           panic == has_tasks /\ ~IsSome(surfaces[s])
       IN  /\ graph_log' =
                IF has_tasks /\ ~panic
                THEN BackdropDependency(graph_log, s,
                                        Unwrap(surfaces[backdrop_surface]), i)
                ELSE graph_log
           /\ inst' = [inst EXCEPT ![i].visibility_info =
                            IF has_tasks THEN @ ELSE INVALID]
           /\ ReturnAs(i, panic, IF has_tasks THEN "interned"
                                  ELSE "no_backdrop_tasks")
           /\ fn' = [op |-> "prepare_interned", inst |-> i,
                     backdrop_surface |-> backdrop_surface, surface |-> s,
                     log_before |-> Len(graph_log)]
    /\ UNCHANGED << scene, dirty_region, prim_info, pics, surfaces,
                    clip_mask_instances, segments, segment_instances,
                    cache_entries, requests, gradient_tiles >>

Next ==
    \/ SkipInvalid
    \/ DirtyRegionStep
    \/ TakeContext
    \/ ReturnFromChildren
    \/ UpdateClipTaskUnmapped
    \/ UpdateClipTask
    \/ PrepareNoTask
    \/ PrepareLineDecoration
    \/ PrepareNormalBorder
    \/ PrepareSegmented
    \/ PrepareLinearGradient
    \/ PrepareTiledGradient
    \/ PreparePicture
    \/ PrepareBackdrop

Spec == Init /\ [][Next]_vars

\* The stage is one sequential program: while a step is possible, one is
\* taken.
SpecLive == Spec /\ WF_vars(Next)

\* ------------------------------------------- function-level specifications

\* The traversal's variables while a single function is exercised: an empty
\* tree, entered and left.
NoTraversal ==
    /\ scene = [kind |-> <<>>, parent |-> <<>>, backdrop |-> <<>>,
                raster_config |-> <<>>]
    /\ dirty_region = <<>>
    /\ inst = <<>>
    /\ prim_info = <<>>
    /\ pics = <<>>
    /\ surfaces = [i \in {0} |-> RootTasks]
    /\ stack = << RootFrame >>
    /\ graph_log = RootLog
    /\ clip_mask_instances = <<>>
    /\ segments = <<>>
    /\ segment_instances = <<>>
    /\ cache_entries = <<>>
    /\ requests = <<>>
    /\ trace = <<>>
    /\ panicked = FALSE
    /\ visible_primitives = 0
    /\ gradient_tiles = <<>>

TraversalUnchanged ==
    UNCHANGED << scene, dirty_region, inst, prim_info, pics, surfaces, stack,
                 graph_log, clip_mask_instances, segments, segment_instances,
                 cache_entries, requests, trace, panicked,
                 visible_primitives >>

\* --- adjust_mask_scale_for_max_size

\* Extents around MAX_MASK_SIZE, in quarter pixels, and origins on and off
\* the pixel grid.
MaskExtents ==
    { PixelUnit, MAX_MASK_SIZE * PixelUnit - 1, MAX_MASK_SIZE * PixelUnit,
      MAX_MASK_SIZE * PixelUnit + 1, 5000 * PixelUnit,
      2 * MAX_MASK_SIZE * PixelUnit + 1 }
MaskOrigins == { 0, 1, 3, 7 * PixelUnit + 2 }
MaskScales == { [num |-> 1, den |-> 1], [num |-> 2, den |-> 1],
                [num |-> 3, den |-> 2] }

InitMask ==
    /\ NoTraversal
    /\ \E x \in MaskOrigins, y \in MaskOrigins, w \in MaskExtents,
          h \in MaskExtents, sc \in MaskScales :
        fn = [op |-> "input", rect |-> [x |-> x, y |-> y, w |-> w, h |-> h],
              scale |-> sc]

AdjustMask ==
    /\ fn.op = "input"
    /\ fn' = [op |-> "adjust_mask_scale_for_max_size", rect |-> fn.rect,
              scale |-> fn.scale,
              result |-> AdjustMaskScaleForMaxSize(fn.rect, fn.scale)]
    /\ TraversalUnchanged
    /\ UNCHANGED gradient_tiles

SpecMask == InitMask /\ [][AdjustMask]_vars

\* --- the scale of a normal border

\* Scales are counted in eighths.
ScaleUnit == 8

\* World-transform scale factors from 1/8 to above 2, on and off the powers
\* of two.
ScaleFactors == {1, 3, 4, 5, 8, 9, 16, 17}
\* The device pixel scales of a surface, as whole numbers.
DevicePixelScales == {1, 2}
\* What get_max_scale_for_border answers for a border template.
MaxScales == {6, 8, 24, 64}
\* local_task_size of a border segment, one side.
TaskSides == {8, 24}

\* util::clamp_to_scale_factor(val, false): val rounded up to the nearest
\* power of two, which for these factors is at least 1/8.
RECURSIVE RoundUpToPowerOfTwo(_, _)
RoundUpToPowerOfTwo(val, power) ==
    IF power >= val THEN power ELSE RoundUpToPowerOfTwo(val, 2 * power)
ClampToScaleFactor(val) == RoundUpToPowerOfTwo(val, 1)

\* The scale without the cap.
BorderScaleUncapped(scale_factors, device_pixel_scale, max_scale) ==
    Max(ClampToScaleFactor(scale_factors[1]),
        ClampToScaleFactor(scale_factors[2])) * device_pixel_scale

\* Lines 413-433: both scale factors clamped, the larger one taken, times the
\* device pixel scale, capped by the border's maximum scale.
BorderScale(scale_factors, device_pixel_scale, max_scale) ==
    Min(Max(ClampToScaleFactor(scale_factors[1]),
            ClampToScaleFactor(scale_factors[2])) * device_pixel_scale,
        max_scale)

\* border::to_cache_size(local_task_size, &mut scale): the size in device
\* pixels at the scale; a size that is too large is brought down together
\* with the scale, which is handed back through the reference.
ToCacheSize(side, scale, oversized) ==
    LET used == IF oversized THEN scale \div 2 ELSE scale
    IN  [scale |-> used, size |-> CeilDiv(side * used, ScaleUnit)]

\* The loop over border_segments, lines 440-466: the cache size and scale
\* each segment's key and task are built with; the scale is carried from one
\* segment to the next.
RECURSIVE BorderSegmentScales(_, _, _, _)
BorderSegmentScales(segs, scale, k, used) ==
    IF k > Len(segs) THEN used
    ELSE LET c == ToCacheSize(segs[k].side, scale, segs[k].oversized)
         IN  BorderSegmentScales(segs, c.scale, k + 1, Append(used, c))

InitBorder ==
    /\ NoTraversal
    /\ gradient_tiles = <<>>
    /\ \E sx \in ScaleFactors, sy \in ScaleFactors, d \in DevicePixelScales,
          m \in MaxScales, n \in 1..MaxBorderSegs :
       \E segs \in [1..n -> [side : TaskSides, oversized : BOOLEAN]] :
        fn = [op |-> "input", scale_factors |-> <<sx, sy>>,
              device_pixel_scale |-> d, max_scale |-> m, border_segments |-> segs]

ScaleBorder ==
    /\ fn.op = "input"
    /\ LET scale == BorderScale(fn.scale_factors, fn.device_pixel_scale,
                                fn.max_scale)
       IN  fn' = [op |-> "border_scale", scale_factors |-> fn.scale_factors,
                  device_pixel_scale |-> fn.device_pixel_scale,
                  max_scale |-> fn.max_scale,
                  border_segments |-> fn.border_segments,
                  scale |-> scale,
                  used |-> BorderSegmentScales(fn.border_segments, scale, 1,
                                               <<>>)]
    /\ TraversalUnchanged
    /\ UNCHANGED gradient_tiles

SpecBorder == InitBorder /\ [][ScaleBorder]_vars

\* --- emit_segments

\* Stop offsets, in tenths.
StopOffsets == {0, 3, 7, 10}

\* Nondecreasing offset lists of 2 to MaxStops stops.
OffsetLists ==
    { l \in UNION { [1..n -> StopOffsets] : n \in 2..MaxStops } :
        \A k \in 1..(Len(l) - 1) : l[k] <= l[k + 1] }

\* Where the gradient's start point lies along the axis and how long the
\* gradient is: the primitive covers offsets [0,1], [0,2] or [-0.5,1.5].
GradientGeometries ==
    { [start |-> 0, length |-> 40], [start |-> 0, length |-> 20],
      [start |-> 10, length |-> 20] }

GradientInputs ==
    { GradientTemplate(l, rev, ext, TRUE, "Horizontal", g.start, g.length,
                       [w |-> 40, h |-> 20]) :
        l \in OffsetLists, rev \in BOOLEAN, ext \in {"Clamp", "Repeat"},
        g \in GradientGeometries }
    \cup
    \* repeated gradients one unit long that start 2^24 units before the
    \* primitive: it covers the 40 offsets from 2^24 on
    { GradientTemplate(l, rev, "Repeat", TRUE, "Horizontal", 0 - 16777216, 1,
                       [w |-> 40, h |-> 20]) :
        l \in OffsetLists, rev \in BOOLEAN }

InitGradient ==
    /\ NoTraversal
    /\ \E t \in GradientInputs : fn = [op |-> "input", template |-> t]

EmitGradient ==
    /\ fn.op = "input"
    /\ fn' = [op |-> "emit_segments", template |-> fn.template,
              stops |-> WalkedStops(fn.template),
              runs |-> LinearGradientRuns(fn.template),
              windows |-> RepeatWindowList(fn.template,
                                           PrimStartOffset(fn.template), <<>>),
              hangs |-> LinearGradientHangs(fn.template)]
    /\ TraversalUnchanged
    /\ UNCHANGED gradient_tiles

SpecGradient == InitGradient /\ [][EmitGradient]_vars

\* --- decompose_repeated_primitive

\* The rects of a tiled gradient. The visible rect is what
\* compute_conservative_visible_rect answers: a part of the tight clip rect,
\* or the zero rect.
TileInputs ==
    { TileInput(clip, prim, visible, stretch, spacing) :
        prim \in { Rect(0, 0, 10, 20), Rect(5, 0, 29, 20), Rect(0, 0, 40, 20) },
        clip \in { Rect(0, 0, 40, 20), Rect(0, 0, 20, 10) },
        visible \in { Rect(0, 0, 40, 20), Rect(18, 2, 40, 8),
                      Rect(0, 0, 0, 0) },
        stretch \in { [w |-> 8, h |-> 20], [w |-> 16, h |-> 5] },
        spacing \in { [w |-> 4, h |-> 0], [w |-> 0, h |-> 2],
                      [w |-> 4, h |-> 2] } }

\* The visible rect clipped to the tight clip rect.
ConservativeVisibleRect(d) ==
    LET tight == Unwrap(Intersection(d.combined_local_clip_rect,
                                     d.prim_local_rect))
        v == Intersection(tight, d.visible_rect)
    IN  IF IsSome(v) THEN Unwrap(v) ELSE Rect(0, 0, 0, 0)

InitTiles ==
    /\ NoTraversal
    /\ \E d \in TileInputs :
        fn = [op |-> "input",
              tile_input |-> [d EXCEPT !.visible_rect =
                                        ConservativeVisibleRect(d)],
              visibility_info |-> 1]

DecomposeTiles ==
    /\ fn.op = "input"
    /\ LET tiles == DecomposeRepeatedPrimitive(fn.tile_input)
       IN  /\ gradient_tiles' = gradient_tiles \o tiles
           /\ fn' = [op |-> "decompose_repeated_primitive",
                     tile_input |-> fn.tile_input, tiles |-> tiles,
                     visibility_before |-> fn.visibility_info,
                     visibility_info |->
                        VisibilityAfterTiles(fn.visibility_info, tiles)]
    /\ TraversalUnchanged

SpecTiles == InitTiles /\ [][DecomposeTiles]_vars

\* ================================================================= claims

\* --- C9

MaskOver(rect) ==
    rect.w > MAX_MASK_SIZE * PixelUnit \/ rect.h > MAX_MASK_SIZE * PixelUnit

\* C9: for a device rect wider or higher than MAX_MASK_SIZE,
\* adjust_mask_scale_for_max_size returns an integer rect of width and height
\* at most MAX_MASK_SIZE and a scale strictly less than the one it was given;
\* for a rect within the limit it returns the scale unchanged.
C9_MaskSizeBound ==
    fn.op = "adjust_mask_scale_for_max_size" =>
        IF MaskOver(fn.rect)
        THEN /\ fn.result.rect.w <= MAX_MASK_SIZE
             /\ fn.result.rect.h <= MAX_MASK_SIZE
             /\ ScaleLess(fn.result.scale, fn.scale)
        ELSE fn.result.scale = fn.scale

\* An oversized rect on a fractional origin: the round-out uses the margin.
C9_Witness ==
    /\ fn.op = "adjust_mask_scale_for_max_size"
    /\ MaskOver(fn.rect)
    /\ fn.rect.x % PixelUnit # 0
    /\ fn.result.rect.w = MAX_MASK_SIZE

\* --- C8

\* The runs, in walk order, that come after run k.
LaterRuns(runs, k) == { j \in 1..Len(runs) : j > k }

\* The gradient of the example: offsets 0.0, 0.3, 0.3, 1.0, clamp mode, the
\* primitive covering offsets 0 to 1.
IsHardStopExample(t) ==
    /\ [k \in 1..Len(t.stops) |-> t.stops[k].offset] = <<0, 3, 3, 10>>
    /\ ~t.reverse_stops
    /\ t.extend_mode = "Clamp"
    /\ PrimStartOffset(t) = 0 /\ PrimEndOffset(t) = GradUnit

\* C8: in clamp mode a run that meets a hard stop ends at the first stop of
\* the pair and the next run starts at the second; no run holds both stops
\* of a pair and no later run reaches back over the pair; the example
\* 0.0, 0.3, 0.3, 1.0 yields exactly two cached runs, over 0.0..0.3 and
\* 0.3..1.0.
C8_HardStopPartition ==
    (fn.op = "emit_segments" /\ fn.template.extend_mode = "Clamp") =>
        LET runs == fn.runs
            stops == fn.stops
            cached == CacheSegments(runs)
        IN  /\ \A k \in 1..Len(runs) :
                /\ runs[k].hard_stop =>
                    /\ stops[runs[k].last_stop].offset
                            = stops[runs[k].last_stop + 1].offset
                    /\ k < Len(runs) =>
                            runs[k + 1].first_stop = runs[k].last_stop + 1
                    /\ \A j \in LaterRuns(runs, k) :
                            runs[j].first_stop > runs[k].last_stop
                /\ \A j \in runs[k].first_stop..(runs[k].last_stop - 1) :
                        stops[j].offset # stops[j + 1].offset
            /\ IsHardStopExample(fn.template) =>
                /\ Len(cached) = 2
                /\ cached[1].first_stop = 1 /\ cached[1].last_stop = 2
                /\ cached[1].start_point = 0 /\ cached[1].end_point = 3
                /\ cached[2].first_stop = 3 /\ cached[2].last_stop = 4
                /\ cached[2].start_point = 3 /\ cached[2].end_point = GradUnit

\* The example has been walked and its first run ended on the hard stop.
C8_Witness ==
    /\ fn.op = "emit_segments"
    /\ IsHardStopExample(fn.template)
    /\ Len(fn.runs) = 2
    /\ fn.runs[1].hard_stop

\* --- C10

TileStride(d) == [w |-> d.stretch_size.w + d.tile_spacing.w,
                  h |-> d.stretch_size.h + d.tile_spacing.h]
RectWidth(r) == r.x1 - r.x0
RectHeight(r) == r.y1 - r.y0
TileColumns(tiles) == { tiles[k].local_rect.x0 : k \in 1..Len(tiles) }
TileRows(tiles) == { tiles[k].local_rect.y0 : k \in 1..Len(tiles) }

\* Per axis at most ceil(R / (S + T)) tiles, pairwise distinct origins, every
\* tile of size S; no tile culls the instance.
TilesWithinBounds(d, tiles, visibility_before, visibility_info) ==
    /\ Cardinality(TileColumns(tiles))
            <= CeilDiv(RectWidth(d.prim_local_rect), TileStride(d).w)
    /\ Cardinality(TileRows(tiles))
            <= CeilDiv(RectHeight(d.prim_local_rect), TileStride(d).h)
    /\ \A j, k \in 1..Len(tiles) :
            j # k =>
                \/ tiles[j].local_rect.x0 # tiles[k].local_rect.x0
                \/ tiles[j].local_rect.y0 # tiles[k].local_rect.y0
    /\ \A k \in 1..Len(tiles) :
            /\ RectWidth(tiles[k].local_rect) = d.stretch_size.w
            /\ RectHeight(tiles[k].local_rect) = d.stretch_size.h
    /\ visibility_info = IF tiles = <<>> THEN INVALID ELSE visibility_before

SmallerThanOneStride(d) ==
    /\ RectWidth(d.prim_local_rect) < TileStride(d).w
    /\ RectHeight(d.prim_local_rect) < TileStride(d).h

StepsOf(i, names) ==
    { k \in 1..Len(trace) : trace[k].inst = i /\ trace[k].step \in names }

\* Steps that end the visit of an instance in prepare_primitives.
TerminalSteps == {"skip", "culled", "take_none", "interned"}
\* Steps made inside prepare_prim_for_render.
PrepareSteps == {"take", "take_none", "restore", "clip", "interned"}

AddsOf(log, kinds) ==
    { k \in 1..Len(log) : log[k].op = "add" /\ log[k].kind \in kinds }
DepsOf(log) == { k \in 1..Len(log) : log[k].op = "dep" }

CachedKinds == {"LineDecoration", "BorderSegment", "Gradient"}

\* The surface an instance is drawn on: that of the nearest picture above it
\* that is not a pass-through, or the surface the stage was entered on.
RECURSIVE OwningSurface(_)
OwningSurface(i) ==
    LET p == scene.parent[i]
    IN  IF p = 0 THEN 0
        ELSE IF pics[p].is_passthrough THEN OwningSurface(p)
        ELSE p

\* --- C1

\* C1: an instance whose visibility mask is empty after the dirty-region step
\* ends with visibility index INVALID, prepare_prim_for_render is never
\* entered for it, and no render task, dependency edge or cache request is
\* made on its behalf.
C1_VisibilityMonotonic ==
    \A i \in PrimsOf :
        (StepsOf(i, {"dirty", "culled"}) # {}
            /\ prim_info[i].visibility_mask = {}) =>
            /\ inst[i].visibility_info = INVALID
            /\ StepsOf(i, PrepareSteps) = {}
            /\ \A k \in 1..Len(graph_log) : graph_log[k].owner # i
            /\ \A k \in 1..Len(requests) : requests[k].owner # i

\* The stage is over and it culled an instance on an empty mask while it
\* prepared another.
C1_Witness ==
    /\ Finished
    /\ \E i \in PrimsOf :
        /\ StepsOf(i, {"culled"}) # {}
        /\ prim_info[i].visibility_mask = {}
    /\ \E k \in 1..Len(trace) : trace[k].step = "interned"

\* --- C2

\* C2: once a picture's child context is taken, every child has been visited
\* and the context handed back before the picture's own clip task and
\* kind-specific preparation run, and no step of a descendant comes after a
\* step of the picture's finalization.
C2_ChildrenBeforeParent ==
    \A p \in PrimsOf : \A k \in StepsOf(p, {"clip", "interned"}) :
        pics[p].taken =>
            /\ \E r \in StepsOf(p, {"restore"}) :
                /\ r < k
                /\ \E t \in StepsOf(p, {"take"}) : t < r
                /\ \A c \in PrimsOf :
                    scene.parent[c] = p =>
                        \E j \in StepsOf(c, TerminalSteps) : j < r
            /\ \A d \in Descendants(p) : \A j \in 1..Len(trace) :
                    trace[j].inst = d => j < k

\* A picture with a prepared child has been finalized.
C2_Witness ==
    \E p \in PrimsOf :
        /\ StepsOf(p, {"interned"}) # {}
        /\ \E c \in PrimsOf :
            scene.parent[c] = p /\ StepsOf(c, {"interned"}) # {}

\* --- C3

\* C3: every mask task the stage creates is followed at once, before any
\* other task is created, by an add_dependency whose consumer is the port of
\* the surface that owns the primitive and whose producer is the mask task,
\* and that is its only edge; a mask task without it is the last thing a
\* panicked stage did.
C3_MaskEdge ==
    \A k \in AddsOf(graph_log, {"mask"}) :
        IF k = Len(graph_log) THEN panicked
        ELSE /\ graph_log[k + 1].op = "dep"
             /\ graph_log[k + 1].task = graph_log[k].task
             /\ IsSome(surfaces[OwningSurface(graph_log[k].owner)])
             /\ graph_log[k + 1].consumer =
                    Unwrap(surfaces[OwningSurface(graph_log[k].owner)]).port
             /\ \A j \in DepsOf(graph_log) :
                    graph_log[j].task = graph_log[k].task => j = k + 1

\* A mask task was made for an instance on a surface whose port is not its
\* root, and the stage is over.
C3_Witness ==
    /\ Finished /\ ~panicked
    /\ \E k \in AddsOf(graph_log, {"mask"}) :
        LET tasks == Unwrap(surfaces[OwningSurface(graph_log[k].owner)])
        IN  tasks.port # tasks.root

\* --- C4

RECURSIVE ReachFrom(_, _, _)
ReachFrom(E, frontier, seen) ==
    LET next == { e[2] : e \in { f \in E : f[1] \in frontier } } \ seen
    IN  IF next = {} THEN seen ELSE ReachFrom(E, next, seen \cup next)

Acyclic(E) ==
    \A e \in E : e[1] \notin ReachFrom(E, {e[1]}, {})

\* C4: the dependency edges in the render-task graph (those of the surfaces'
\* own tasks, port -> mask task, port -> backdrop picture's root) contain no
\* cycle.
C4_Acyclic == Acyclic(Edges(graph_log))

\* The stage is over with a backdrop edge and a mask edge in the graph.
C4_Witness ==
    /\ Finished /\ ~panicked
    /\ \E i \in PrimsOf :
        /\ KindOf(i) = "Backdrop"
        /\ \E k \in DepsOf(graph_log) : graph_log[k].owner = i
    /\ AddsOf(graph_log, {"mask"}) # {}

\* --- C5

\* Tasks of the surfaces: the picture tasks and the filter tasks after them.
SurfaceTaskIds ==
    { graph_log[k].task : k \in AddsOf(graph_log, {"picture", "filter"}) }

SameKey(a, b) == a.kind = b.kind /\ a = b

\* The key had an entry when the stage was entered.
WarmKey(key) ==
    \E e \in 1..Len(cache_entries) :
        cache_entries[e].task = 0 /\ SameKey(cache_entries[e].key, key)

\* Requests that are the first of their key in this frame.
FirstRequests ==
    { a \in 1..Len(requests) :
        \A b \in 1..(a - 1) : ~SameKey(requests[b].key, requests[a].key) }

Builds == { a \in 1..Len(requests) : requests[a].built }

\* Requests with equal keys return equal handles.
SameKeySameHandle ==
    \A a, b \in 1..Len(requests) :
        SameKey(requests[a].key, requests[b].key)
            => requests[a].handle = requests[b].handle

\* C6 (amended): requests with equal cache keys return the same handle and
\* the build closure runs at most once for a key: on the first request, when
\* the cache holds no entry for the key; the number of cached render tasks
\* added equals the number of distinct keys requested that had no entry.
C6_CacheIdempotent ==
    /\ SameKeySameHandle
    /\ Builds = { a \in FirstRequests : ~WarmKey(requests[a].key) }
    /\ Cardinality(AddsOf(graph_log, CachedKinds)) = Cardinality(Builds)

\* A key was requested twice in the frame: built on the first request, not
\* on the second.
C6_Witness ==
    /\ Finished
    /\ \E a, b \in 1..Len(requests) :
        /\ a < b
        /\ SameKey(requests[a].key, requests[b].key)
        /\ requests[a].built /\ ~requests[b].built

\* C6 as stated: equal keys, equal handles; the build closure runs exactly
\* once for every key requested; the number of cached render tasks added
\* equals the number of distinct keys requested.
C6_AsStated ==
    /\ SameKeySameHandle
    /\ \A a \in 1..Len(requests) :
        Cardinality({ b \in Builds :
                        SameKey(requests[b].key, requests[a].key) }) = 1
    /\ Cardinality(AddsOf(graph_log, CachedKinds))
            = Cardinality(FirstRequests)

\* --- C7

\* What the segment builder yields: nothing when write_brush_segment_description
\* declines.
BuilderYield(b) ==
    IF Area(b.size) >= MIN_BRUSH_SPLIT_AREA /\ ClipLoop(b.clips, 1)
    THEN b.built ELSE <<>>

\* C7: when build_segments_if_needed runs the segment builder and it yields
\* zero or one segment (also when segmentation is declined), the segment
\* instance index becomes UNUSED and nothing is appended to the segment
\* store; every stored segment instance has a range of at least 2 segments.
C7_SegmentCollapse ==
    /\ (fn.op = "update_clip_task" /\ fn.unclipped /\ fn.ran_builder
            /\ Len(BuilderYield(fn.build)) <= 1) =>
            /\ inst[fn.inst].segment_instance_index = UNUSED
            /\ Len(segments) = fn.segments_before
            /\ Len(segment_instances) = fn.instances_before
    /\ \A k \in 1..Len(segment_instances) : segment_instances[k].len >= 2

\* The builder ran and yielded one segment.
C7_Witness ==
    /\ fn.op = "update_clip_task" /\ fn.unclipped /\ fn.ran_builder
    /\ Len(BuilderYield(fn.build)) = 1
    /\ inst[fn.inst].segment_instance_index = UNUSED

\* --- C11

\* Instances for which the traversal met one of the outcomes.
MetOutcome(outcomes) ==
    { i \in PrimsOf :
        \E k \in 1..Len(trace) :
            trace[k].inst = i /\ trace[k].outcome \in outcomes }

\* Outcomes after which the code sets the visibility index to INVALID.
CullingOutcomes == {"culled", "take_none", "no_tiles", "no_backdrop_tasks"}

\* C11 (amended): an empty visibility mask after the dirty-region step, a
\* gradient tile decomposition without visible tiles, an invisible composite
\* filter (no picture context) and a backdrop whose picture has no render
\* tasks each leave the instance with visibility index INVALID from then on;
\* a failed mapping of the clip rect in clip-task synthesis and a fully
\* clipped clip chain of a segment leave the visibility index as it was.
C11_CullingOutcomes ==
    /\ \A i \in MetOutcome(CullingOutcomes) :
            inst[i].visibility_info = INVALID
    /\ fn.op = "update_clip_task" => inst[fn.inst].visibility_info # INVALID

\* The stage is over; a backdrop was culled for want of render tasks of its
\* picture and another instance for an empty mask or a missing context.
C11_Witness ==
    /\ Finished /\ ~panicked
    /\ MetOutcome({"no_backdrop_tasks"}) # {}
    /\ MetOutcome({"culled", "take_none"}) # {}

\* C11 as stated: at the end of the stage every instance that met one of the
\* six outcomes, the failed mapping and the fully clipped chain included, has
\* visibility index INVALID.
C11_AsStated ==
    (Finished /\ ~panicked) =>
        \A i \in MetOutcome(CullingOutcomes \cup {"unmapped", "clipped"}) :
            inst[i].visibility_info = INVALID

\* --- C12

\* The last step entered write_segment on the index the record holds.
EntersWriteSegment ==
    /\ fn.op = "prepare_interned"
    /\ \/ KindOf(fn.inst) \in {"Rectangle", "YuvImage", "Image"}
       \/ /\ KindOf(fn.inst) = "Picture"
          /\ fn.prepare_for_render
          /\ pics[fn.inst].can_use_segments

\* C12: whenever write_segment is entered, and whenever
\* update_clip_task_for_brush reads the segment instance index of a Rectangle
\* or YuvImage, the index is UNUSED or a stored range and never INVALID,
\* whatever the clip-task synthesis of the instance did before.
C12_AsStated ==
    /\ EntersWriteSegment => fn.index # INVALID
    /\ (fn.op = "update_clip_task" /\ fn.unclipped
            /\ KindOf(fn.inst) \in {"Rectangle", "YuvImage"})
        => fn.sel # "panic"

\* --- C13

\* The last step made a mask task for an instance of surface s.
MadeMaskTask ==
    /\ fn.op = "update_clip_task" /\ fn.unclipped
    /\ Len(graph_log) > fn.log_before

\* The last step prepared a backdrop primitive whose picture has render
\* tasks.
NeedsBackdropEdge ==
    /\ fn.op = "prepare_interned" /\ KindOf(fn.inst) = "Backdrop"
    /\ IsSome(surfaces[fn.backdrop_surface])

\* A step that needed an edge on a surface without render tasks panicked and
\* left no edge: a mask task is the last entry of the graph log, a backdrop
\* left the log as it was.
PanicsWithoutEdge ==
    /\ (MadeMaskTask /\ ~IsSome(surfaces[fn.surface])) =>
            /\ panicked
            /\ Len(graph_log) = fn.log_before + 1
            /\ graph_log[Len(graph_log)].op = "add"
    /\ (NeedsBackdropEdge /\ ~IsSome(surfaces[fn.surface])) =>
            /\ panicked
            /\ Len(graph_log) = fn.log_before

\* C13: when a mask task or a backdrop needs a dependency edge and the
\* surface that owns the primitive has no render tasks, the stage panics at
\* that point, records no edge for it, and takes no further step.
C13_PanicOnMissingSurface == []PanicsWithoutEdge /\ [][~panicked]_vars

\* A backdrop inside a picture whose surface has no render tasks panicked;
\* the picture around it was never finalized.
C13_Witness ==
    /\ panicked
    /\ NeedsBackdropEdge
    /\ ~IsSome(surfaces[fn.surface])
    /\ StepsOf(scene.parent[fn.inst], {"restore"}) = {}

\* --- C14

\* Instances whose visit by prepare_primitives is over.
Visited == { i \in PrimsOf : StepsOf(i, TerminalSteps) # {} }

\* C14: every instance that prepare_primitives has visited, in the list it
\* was given or in a nested picture list, has visibility index INVALID or a
\* visibility index whose slot holds a non-empty visibility_mask; so it is at
\* the end of the stage.
C14_ValidIndexHasMask ==
    \A i \in Visited :
        \/ inst[i].visibility_info = INVALID
        \/ prim_info[inst[i].visibility_info].visibility_mask # {}

\* The stage is over: an instance of a nested list was culled on an empty
\* mask and the picture around it stayed visible.
C14_Witness ==
    /\ Finished /\ ~panicked
    /\ \E i \in Visited :
        /\ scene.parent[i] # 0
        /\ StepsOf(i, {"culled"}) # {}
        /\ inst[i].visibility_info = INVALID
        /\ scene.parent[i] \in Visited
        /\ inst[scene.parent[i]].visibility_info # INVALID

\* --- C16

\* The steps by which the loop of prepare_primitives examines an instance.
ExaminedSteps == {"skip", "culled", "dirty"}

\* The lists prepare_primitives was called on: the one handed to the stage
\* and the child list of every picture whose context was taken.
EnteredLists == {0} \cup { p \in PrimsOf : StepsOf(p, {"take"}) # {} }

EveryInstanceExaminedOnce ==
    \A i \in PrimsOf :
        Cardinality(StepsOf(i, ExaminedSteps))
            = IF scene.parent[i] \in EnteredLists THEN 1 ELSE 0

\* C16: the stage terminates, unless a fatal invariant panics, with every
\* instance of every list it entered examined exactly once; the loops of the
\* linear gradient arm terminate.
C16_AsStated ==
    <>(panicked \/ (Finished /\ EveryInstanceExaminedOnce))

\* --- C17

\* The last step was an update_clip_task, past the unclipped rect, on a
\* primitive without segments whose clip chain needs a mask and whose clipped
\* device rect exists.
NoSegmentsNeedsMask ==
    /\ fn.op = "update_clip_task" /\ fn.unclipped
    /\ fn.sel # "panic" /\ fn.segs = <<>>
    /\ fn.chain.needs_mask /\ fn.device

\* That step added exactly one mask task and appended exactly one entry, a
\* Mask with that task.
OneFullPrimitiveMask ==
    /\ Cardinality({ k \in AddsOf(graph_log, {"mask"}) : k > fn.log_before })
            = 1
    /\ Len(clip_mask_instances) = fn.cmi_before + 1
    /\ clip_mask_instances[Len(clip_mask_instances)]
            = ClipMaskMask(TaskCount(graph_log))

\* C17: a visible primitive that has no segments (index UNUSED, a kind that
\* never has segments, or an empty template list) and whose clip chain needs
\* a mask gets exactly one full-primitive mask task and exactly one Mask
\* entry, provided the clipped device rect exists.
C17_AsStated == NoSegmentsNeedsMask => OneFullPrimitiveMask

\* The same for the primitives update_clip_task_for_brush returns false for.
C17_Fallback == (NoSegmentsNeedsMask /\ fn.sel = "none") => OneFullPrimitiveMask

\* --- C18

\* The last step was an update_clip_task that went through the loop over
\* more than one segment and returned.
MultiSegmentPath ==
    /\ fn.op = "update_clip_task" /\ fn.unclipped
    /\ fn.sel = "list" /\ Len(fn.segs) > 1
    /\ ~panicked

\* The entry the k-th segment of that call is due: Clipped when its rebuilt
\* chain is absent or its mask rect is empty, None when no mask is needed,
\* otherwise a Mask.
SegmentResultKind(k) ==
    LET o == fn.oracles[k] IN
    IF ~IsSome(o.chain) THEN "Clipped"
    ELSE IF ~Unwrap(o.chain).needs_mask THEN "None"
    ELSE IF ~fn.segs[k].may_need_clip_mask
                /\ ~Unwrap(o.chain).has_non_local_clips THEN "None"
    ELSE IF o.device THEN "Mask" ELSE "Clipped"

\* The mask tasks added since the call began, as task ids.
MaskTasksOfCall ==
    { graph_log[k].task :
        k \in { j \in AddsOf(graph_log, {"mask"}) : j > fn.log_before } }

\* C18: the multi-segment path over N > 1 segments appends exactly N
\* entries, the k-th for the k-th segment, each None, Clipped or Mask; an
\* absent rebuilt chain gives Clipped and no task (the mask tasks of the call
\* are exactly those of its Mask entries, one each); clip_task_index is the
\* length of the list before the first append.
C18_MultiSegmentEntries ==
    MultiSegmentPath =>
        LET n == Len(fn.segs)
            entry(k) == clip_mask_instances[fn.cmi_before + k]
            masks == { k \in 1..n : entry(k).kind = "Mask" }
        IN  /\ Len(clip_mask_instances) = fn.cmi_before + n
            /\ \A k \in 1..n :
                  /\ entry(k).kind \in {"None", "Clipped", "Mask"}
                  /\ entry(k).kind = SegmentResultKind(k)
            /\ { entry(k).task : k \in masks } = MaskTasksOfCall
            /\ Cardinality(MaskTasksOfCall) = Cardinality(masks)
            /\ prim_info[fn.inst].clip_task_index = fn.cmi_before

\* A two-segment call on a list that already holds entries: the first
\* segment's chain is absent, the second gets a mask.
C18_Witness ==
    /\ MultiSegmentPath
    /\ fn.cmi_before > 0
    /\ ~IsSome(fn.oracles[1].chain)
    /\ clip_mask_instances[fn.cmi_before + 1].kind = "Clipped"
    /\ clip_mask_instances[fn.cmi_before + 2].kind = "Mask"

\* --- C19

\* The last step was an update_clip_task on a primitive with exactly one
\* segment.
SingleSegmentPath ==
    /\ fn.op = "update_clip_task" /\ fn.unclipped
    /\ fn.sel = "list" /\ Len(fn.segs) = 1

\* needs_mask and either the segment's hint or the chain's non-local clips.
SingleSegmentWantsMask ==
    /\ fn.chain.needs_mask
    /\ fn.segs[1].may_need_clip_mask \/ fn.chain.has_non_local_clips

\* C19: the single-segment path hands the primitive's own clip chain to
\* update_brush_segment_clip_task (no rebuilt chain), makes a mask task only
\* if the chain needs a mask and the segment's hint or the chain's non-local
\* clips flag is set, and, when it returns, has appended exactly one entry.
C19_SingleSegmentFastPath ==
    SingleSegmentPath =>
        /\ fn.oracles[1].chain = Some(fn.chain)
        /\ Cardinality(MaskTasksOfCall) <= 1
        /\ MaskTasksOfCall # {} => SingleSegmentWantsMask
        /\ ~SingleSegmentWantsMask =>
                /\ Len(clip_mask_instances) = fn.cmi_before + 1
                /\ clip_mask_instances[fn.cmi_before + 1] = ClipMaskNone
        /\ ~panicked =>
                /\ Len(clip_mask_instances) = fn.cmi_before + 1
                /\ prim_info[fn.inst].clip_task_index = fn.cmi_before

\* One segment without the hint, a chain with non-local clips: a mask.
C19_Witness ==
    /\ SingleSegmentPath /\ ~panicked
    /\ ~fn.segs[1].may_need_clip_mask
    /\ fn.chain.has_non_local_clips
    /\ clip_mask_instances[fn.cmi_before + 1].kind = "Mask"

\* --- C20

\* The last step was an update_clip_task whose unclipped device rect could
\* not be computed.
MappingFailed == fn.op = "update_clip_task" /\ ~fn.unclipped

\* C20: when the mapping of the clip rect to device space fails,
\* update_clip_task changes nothing: no segments are built and the segment
\* instance index is as before, no clip-mask entry is appended,
\* clip_task_index is as before, and no task or edge is added.
C20_UnmappedChangesNothing ==
    MappingFailed =>
        /\ inst[fn.inst].segment_instance_index = fn.index_before
        /\ pics[fn.inst].segments_are_valid = fn.valid_before
        /\ Len(segments) = fn.segments_before
        /\ Len(segment_instances) = fn.instances_before
        /\ Len(clip_mask_instances) = fn.cmi_before
        /\ prim_info[fn.inst].clip_task_index = fn.clip_task_before
        /\ Len(graph_log) = fn.log_before

\* The mapping fails for a rectangle whose segments were never built.
C20_Witness ==
    /\ MappingFailed
    /\ KindOf(fn.inst) = "Rectangle"
    /\ inst[fn.inst].segment_instance_index = INVALID

\* --- C21

\* The last step was an update_clip_task that returned.
ClipSynthesisReturned == fn.op = "update_clip_task" /\ ~panicked

\* C21 as stated: after the clip-task synthesis of a primitive for which no
\* mask task was created, its clip_task_index is still INVALID.
C21_AsStated ==
    (ClipSynthesisReturned /\ Len(graph_log) = fn.log_before)
        => prim_info[fn.inst].clip_task_index = INVALID

\* C21: the clip-task synthesis of a primitive moves its clip_task_index
\* away from INVALID exactly when it appended entries for the primitive, and
\* then to the position of the first of them; a primitive for which nothing
\* was appended keeps INVALID.
C21_IndexSetWithEntries ==
    ClipSynthesisReturned =>
        IF Len(clip_mask_instances) = fn.cmi_before
        THEN prim_info[fn.inst].clip_task_index = INVALID
        ELSE prim_info[fn.inst].clip_task_index = fn.cmi_before

\* Two segments, neither of which got a mask: the index is set all the same.
C21_Witness ==
    /\ ClipSynthesisReturned /\ fn.unclipped
    /\ Len(graph_log) = fn.log_before
    /\ Len(clip_mask_instances) = fn.cmi_before + 2
    /\ prim_info[fn.inst].clip_task_index = fn.cmi_before

\* --- C22

\* The last step was an update_clip_task in which build_segments_if_needed
\* called write_brush_segment_description on a primitive of at least the
\* split area.
DescribedLargePrimitive ==
    /\ fn.op = "update_clip_task" /\ fn.unclipped
    /\ fn.ran_builder
    /\ Area(fn.build.size) >= MIN_BRUSH_SPLIT_AREA

\* Segmentation was given up: nothing stored, the index UNUSED.
SegmentationAborted ==
    /\ inst[fn.inst].segment_instance_index = UNUSED
    /\ Len(segments) = fn.segments_before
    /\ Len(segment_instances) = fn.instances_before

\* C22 as stated: an image-mask clip item anywhere in the clip chain of a
\* primitive of at least 128x128 aborts its segmentation.
C22_AsStated ==
    (DescribedLargePrimitive
        /\ \E k \in 1..Len(fn.build.clips) : fn.build.clips[k].kind = "Image")
        => SegmentationAborted

\* C22: an image-mask clip item positioned by the primitive's own spatial
\* node aborts the segmentation of a primitive of at least 128x128: no
\* segments are stored and the segment instance index becomes UNUSED.
C22_ImageMaskAborts ==
    (DescribedLargePrimitive
        /\ \E k \in 1..Len(fn.build.clips) :
                /\ fn.build.clips[k].kind = "Image"
                /\ fn.build.clips[k].same_spatial_node)
        => SegmentationAborted

\* An image mask after a rounded rectangle, on an index that was INVALID.
C22_Witness ==
    /\ DescribedLargePrimitive
    /\ Len(fn.build.clips) = 2
    /\ fn.build.clips[2] = ClipItem("Image", TRUE)
    /\ fn.index_before = INVALID
    /\ SegmentationAborted

\* --- C23

\* The last step was an update_clip_task that called build_segments_if_needed
\* on an instance whose index was UNUSED or valid on entry and, for a
\* picture, whose segments were still marked valid.
BuildEnteredBuilt ==
    /\ fn.op = "update_clip_task" /\ fn.unclipped
    /\ fn.index_before # INVALID
    /\ KindOf(fn.inst) = "Picture" => fn.valid_before

SegmentStoresUnchanged ==
    /\ Len(segments) = fn.segments_before
    /\ Len(segment_instances) = fn.instances_before

\* C23 as stated: from an index that is UNUSED or valid the index and both
\* stores are left unchanged.
C23_AsStated ==
    BuildEnteredBuilt =>
        /\ inst[fn.inst].segment_instance_index = fn.index_before
        /\ SegmentStoresUnchanged

\* C23: from an index that is UNUSED or valid, build_segments_if_needed
\* leaves both stores unchanged, and the index too, except that the index of
\* an image that is tiled becomes UNUSED.
C23_BuildOnlyFromInvalid ==
    BuildEnteredBuilt =>
        /\ SegmentStoresUnchanged
        /\ inst[fn.inst].segment_instance_index =
                IF KindOf(fn.inst) = "Image" /\ fn.build.tiling
                THEN UNUSED ELSE fn.index_before

\* A rectangle whose segments were stored before keeps its index.
C23_Witness ==
    /\ BuildEnteredBuilt
    /\ KindOf(fn.inst) = "Rectangle"
    /\ fn.index_before > 0
    /\ inst[fn.inst].segment_instance_index = fn.index_before
    /\ SegmentStoresUnchanged

\* --- C24

\* Pictures whose context was taken and said pass-through.
PassThroughPictures ==
    { i \in PrimsOf : pics[i].taken /\ pics[i].is_passthrough }

\* C24: for every instance whose kind-specific preparation ran, the clip-task
\* synthesis ran exactly once before it and, for a picture, after the child
\* list was prepared and handed back, unless the instance is a pass-through
\* picture: then it did not run at all, while the child list was prepared
\* before the kind-specific preparation all the same.
C24_ClipTaskOrder ==
    /\ \A i \in PrimsOf : \A k \in StepsOf(i, {"interned"}) :
          /\ pics[i].taken =>
                \E t \in StepsOf(i, {"take"}) :
                \E r \in StepsOf(i, {"restore"}) : t < r /\ r < k
          /\ IF i \in PassThroughPictures
             THEN StepsOf(i, {"clip"}) = {}
             ELSE /\ Cardinality(StepsOf(i, {"clip"})) = 1
                  /\ \A c \in StepsOf(i, {"clip"}) :
                        /\ c < k
                        /\ \A r \in StepsOf(i, {"take", "restore", "dirty"}) :
                                r < c
                        /\ \A d \in Descendants(i) :
                                \A j \in 1..Len(trace) :
                                    trace[j].inst = d => j < c
    /\ \A i \in PassThroughPictures : StepsOf(i, {"clip"}) = {}

\* The stage is over; a pass-through picture and one of its children have
\* had their kind-specific preparation.
C24_Witness ==
    /\ Finished /\ ~panicked
    /\ \E p \in PassThroughPictures :
        /\ StepsOf(p, {"interned"}) # {}
        /\ \E c \in PrimsOf :
            /\ scene.parent[c] = p
            /\ StepsOf(c, {"clip"}) # {}
            /\ StepsOf(c, {"interned"}) # {}

\* --- C25

\* Run k + 1 was walked by the same emit_segments call as run k: the runs of
\* one call share the call's gradient_offset_base.
SameCall(runs, k) == k < Len(runs) /\ runs[k + 1].base = runs[k].base

\* Run k is the first run of its call.
StartsCall(runs, k) == k = 1 \/ runs[k - 1].base # runs[k].base

\* Every run holds 1 to GRADIENT_FP_STOPS consecutive stops; within a call
\* the first stop strictly increases and the next run starts at the last stop
\* of a run that did not end on a hard stop, after it otherwise; the first
\* run of a call starts at the first stop; a request is made only for a run
\* whose local rect has positive area.
RunsContiguous ==
    \A k \in 1..Len(fn.runs) :
        LET r == fn.runs[k] IN
        /\ r.num_stops \in 1..GRADIENT_FP_STOPS
        /\ r.num_stops = r.last_stop - r.first_stop + 1
        /\ r.first_stop >= 1 /\ r.last_stop <= Len(fn.stops)
        /\ StartsCall(fn.runs, k) => r.first_stop = 1
        /\ SameCall(fn.runs, k) =>
                /\ fn.runs[k + 1].first_stop > r.first_stop
                /\ fn.runs[k + 1].first_stop =
                        IF r.hard_stop THEN r.last_stop + 1 ELSE r.last_stop
        /\ r.requested =>
                /\ r.den > 0
                /\ r.length_num
                        * AcrossSize(fn.template.orientation,
                                     fn.template.prim_size) > 0

\* C25 as stated: the runs of a call are contiguous and reach the last stop,
\* so that they cover the whole stop index range.
C25_AsStated ==
    fn.op = "emit_segments" =>
        /\ RunsContiguous
        /\ \A k \in 1..Len(fn.runs) :
                ~SameCall(fn.runs, k) => fn.runs[k].last_stop = Len(fn.stops)

\* C25: the runs of a call are contiguous from the first stop on, so that
\* they cover without a gap the stop indices up to the last stop of the last
\* run walked.
C25_RunsContiguous == fn.op = "emit_segments" => RunsContiguous

\* A run filled to GRADIENT_FP_STOPS stops without a hard stop, followed by a
\* run of the same call that starts at its last stop.
C25_Witness ==
    /\ fn.op = "emit_segments"
    /\ \E k \in 1..Len(fn.runs) :
        /\ SameCall(fn.runs, k)
        /\ fn.runs[k].num_stops = GRADIENT_FP_STOPS
        /\ ~fn.runs[k].hard_stop
        /\ fn.runs[k + 1].first_stop = fn.runs[k].last_stop

\* --- C26

\* The last step decomposed a repeat-mode gradient whose covering range
\* extends outside [0,1]: the window loop was taken.
WindowLoopTaken ==
    /\ fn.op = "emit_segments"
    /\ fn.template.extend_mode = "Repeat"
    /\ ~(PrimStartOffset(fn.template) >= 0
            /\ PrimEndOffset(fn.template) <= GradUnit)

\* The windows march from prim_start to prim_end: each base is the floor of
\* the window's start, each sub-range lies within [0,1] and is not empty,
\* each window starts where the one before ended.
WindowsMarch ==
    LET ws == fn.windows
        from(k) == ws[k].base + ws[k].repeat_start
        to(k) == ws[k].base + ws[k].repeat_end
    IN  /\ ws # <<>>
        /\ from(1) = PrimStartOffset(fn.template)
        /\ to(Len(ws)) = PrimEndOffset(fn.template)
        /\ \A k \in 1..Len(ws) :
              /\ ws[k].base = FloorOffset(from(k))
              /\ 0 <= ws[k].repeat_start
              /\ ws[k].repeat_start < ws[k].repeat_end
              /\ ws[k].repeat_end <= GradUnit
              /\ k < Len(ws) => from(k + 1) = to(k)

\* C26: the window loop of a repeat-mode gradient decomposes windows that
\* march from prim_start to prim_end, no part of the range twice or skipped.
C26_AsStated == WindowLoopTaken => (~fn.hangs /\ WindowsMarch)

\* The same for the gradients whose window loop ends.
C26_ExactOffsets == (WindowLoopTaken /\ ~fn.hangs) => WindowsMarch

\* --- C27

PowersOfTwo == {1, 2, 4, 8, 16, 32, 64}

\* p is val rounded up to a power of two: the least one that is not below.
RoundedUp(val, p) == p \in PowersOfTwo /\ p >= val /\ p < 2 * val

\* C27: the scale a normal border's segments are cached and drawn at never
\* exceeds the border's maximum scale, and it comes from the two world scale
\* factors each rounded up, never down, to a power of two: the larger of the
\* two, times the device pixel scale, unless the maximum is smaller.
C27_BorderScale ==
    fn.op = "border_scale" =>
        /\ \E px, py \in PowersOfTwo :
              /\ RoundedUp(fn.scale_factors[1], px)
              /\ RoundedUp(fn.scale_factors[2], py)
              /\ fn.scale = Min(Max(px, py) * fn.device_pixel_scale,
                                fn.max_scale)
        /\ fn.scale <= fn.max_scale
        /\ \A k \in 1..Len(fn.used) :
              /\ fn.used[k].scale <= fn.max_scale
              /\ fn.used[k].scale <= fn.scale

\* Scale factors 3/8 and 9/8 at device pixel scale 2: rounded up to 1/2 and
\* 2, the scale would be 4; the border's maximum of 3 caps it.
C27_Witness ==
    /\ fn.op = "border_scale"
    /\ fn.scale_factors = <<3, 9>>
    /\ fn.device_pixel_scale = 2
    /\ fn.max_scale = 24
    /\ fn.scale = 24
    /\ Len(fn.used) = MaxBorderSegs

\* --- C28

\* Primitives whose clip_task_index has been set.
IndexSet == { i \in PrimsOf : prim_info[i].clip_task_index # INVALID }

\* The positions of clip_mask_instances (counted from 1) that primitive i's
\* clip_task_index designates: as many as its clip-task synthesis pushed,
\* from the index on.
RunOf(i) ==
    LET k == CHOOSE c \in StepsOf(i, {"clip"}) : TRUE
    IN  (prim_info[i].clip_task_index + 1)
            .. (prim_info[i].clip_task_index + trace[k].pushed)

\* Every run is one stretch of at least one entry inside the list, and no two
\* runs share a position.
RunsApart ==
    \A i \in IndexSet :
        /\ Cardinality(StepsOf(i, {"clip"})) = 1
        /\ RunOf(i) # {}
        /\ RunOf(i) \subseteq 1..Len(clip_mask_instances)
        /\ \A j \in IndexSet \ {i} : RunOf(i) \cap RunOf(j) = {}

\* The run of the call just made: one entry per segment, or the one entry of
\* a full-primitive mask.
RunPerSegment ==
    (fn.op = "update_clip_task" /\ fn.inst \in IndexSet) =>
        Cardinality(RunOf(fn.inst)) =
            (IF fn.sel = "list" THEN Len(fn.segs) ELSE 1)

\* The list only grows at its end.
AppendOnly ==
    /\ Len(clip_mask_instances') >= Len(clip_mask_instances)
    /\ SubSeq(clip_mask_instances', 1, Len(clip_mask_instances))
            = clip_mask_instances

\* C28: clip_mask_instances is append-only during the stage, and for every
\* primitive whose clip_task_index the stage has set, the run it designates
\* (one entry per segment, or one entry for a full-primitive mask) lies
\* within the list, is one stretch, and shares no position with the run of
\* any other primitive, those of nested pictures included.
C28_RunsApart ==
    /\ [](~panicked => (RunsApart /\ RunPerSegment))
    /\ [][AppendOnly]_vars

\* A picture and a primitive of its child list both have runs, the child's
\* first, and one of the runs has more than one entry.
C28_Witness ==
    /\ Finished /\ ~panicked
    /\ RunsApart
    /\ \E i \in IndexSet : \E j \in IndexSet :
        /\ scene.parent[j] = i
        /\ prim_info[j].clip_task_index < prim_info[i].clip_task_index
        /\ Cardinality(RunOf(i) \cup RunOf(j)) >= 3

\* --- C29

\* Instances the stage has visited whose visibility index is INVALID.
EndsInvalid == { i \in Visited : inst[i].visibility_info = INVALID }

\* The entry is a task of the surface take_context set up for picture i, or
\* an edge that such a task produces for.
SurfaceWork(i, k) ==
    \/ graph_log[k].op = "add" /\ graph_log[k].kind \in {"picture", "filter"}
    \/ /\ graph_log[k].op = "dep"
       /\ \E a \in AddsOf(graph_log, {"picture", "filter"}) :
            /\ graph_log[a].owner = i
            /\ graph_log[a].task = graph_log[k].task

\* Tasks and edges of the render-task graph made on behalf of instance i by
\* clip-task synthesis and kind-specific preparation.
MadeFor(i) ==
    { k \in 1..Len(graph_log) : graph_log[k].owner = i /\ ~SurfaceWork(i, k) }

\* Outcomes of the kind-specific step that cull the instance.
LateCulls == {"no_tiles", "not_prepared", "no_backdrop_tasks"}

\* The entry is a mask task of instance i or the edge of one.
MaskWork(i, k) ==
    \/ graph_log[k].op = "add" /\ graph_log[k].kind = "mask"
    \/ /\ graph_log[k].op = "dep"
       /\ \E a \in AddsOf(graph_log, {"mask"}) :
            /\ graph_log[a].owner = i
            /\ graph_log[a].task = graph_log[k].task

\* C29 as stated: at the end of the stage no task and no edge was made on
\* behalf of an instance whose visibility index is INVALID.
C29_AsStated ==
    (Finished /\ ~panicked) => \A i \in EndsInvalid : MadeFor(i) = {}

\* C29 (amended): an instance that ends with visibility index INVALID and
\* was culled before its preparation (INVALID on entry, empty mask after the
\* dirty-region step, missing picture context) has had no task and no edge
\* made on its behalf; one culled by its kind-specific step (gradient tile
\* decomposition, picture prepare_for_render, backdrop) has had none made
\* apart from the mask tasks and mask edges of its clip-task synthesis and,
\* for a linear gradient, the cached gradient runs requested before the
\* tiles were decomposed.
C29_CulledWork ==
    \A i \in EndsInvalid :
        IF i \in MetOutcome(LateCulls)
        THEN \A k \in MadeFor(i) :
                \/ MaskWork(i, k)
                \/ /\ KindOf(i) = "LinearGradient"
                   /\ graph_log[k].op = "add"
                   /\ graph_log[k].kind = "Gradient"
        ELSE /\ MadeFor(i) = {}
             /\ \A k \in 1..Len(requests) : requests[k].owner # i

\* The stage is over; an instance culled by its kind-specific step has a
\* mask task and another one was culled before its preparation.
C29_Witness ==
    /\ Finished /\ ~panicked
    /\ \E i \in EndsInvalid \cap MetOutcome(LateCulls) :
            \E k \in MadeFor(i) : graph_log[k].kind = "mask"
    /\ EndsInvalid \ MetOutcome(LateCulls) # {}

\* --- C30

\* Instances the stage has visited whose visibility index is not INVALID.
StillVisible == { i \in Visited : inst[i].visibility_info # INVALID }

\* Returns of prepare_prim_for_render with true so far.
ReturnedTrue == { k \in 1..Len(trace) : trace[k].step = "interned" }

\* C30 as stated: at the end of the stage visible_primitives has been
\* incremented once for each instance of the lists the stage went through
\* whose visibility index is not INVALID, and for no instance whose
\* visibility index is INVALID.
C30_AsStated ==
    (Finished /\ ~panicked) =>
        visible_primitives = Cardinality(StillVisible)

\* What the counter holds: one increment for each return of
\* prepare_prim_for_render with true, at most one for an instance, whatever
\* the kind-specific step did to the visibility index, and none for an
\* instance skipped or culled before that.
C30_CountsReturns ==
    ~panicked =>
        /\ visible_primitives = Cardinality(ReturnedTrue)
        /\ \A i \in PrimsOf : Cardinality(StepsOf(i, {"interned"})) <= 1
        /\ \A i \in StillVisible : StepsOf(i, {"interned"}) # {}

====
